---- MODULE Spec2Model ----
(***************************************************************************)
(* trent-rs: a typed client for the YGOProDeck card database.              *)
(*                                                                         *)
(*   request.rs  Request, RequestBuilder, CardType: the query model and    *)
(*               its encoder to_url_params                                 *)
(*   card.rs     Card and its records, the serde (de)serialisation of a    *)
(*               card record tagged by frameType                           *)
(*   client.rs   Client::get / Client::get_by_name                         *)
(*                                                                         *)
(* Text is modelled by strings, read character by character with SubSeq.   *)
(* Option<T> is a sequence of length 0 (None) or 1 (Some).                 *)
(***************************************************************************)
EXTENDS Integers, Sequences, FiniteSets, TLC

VARIABLES
    request,    \* request.rs: the Request held by the RequestBuilder / built
    calls,      \* history: the builder operations applied so far, in order
    rpc,        \* "building" | "built" | "encoded"
    params,     \* the String returned by Request::to_url_params
    card,       \* card.rs: a Card value in memory, to be serialised
    wire,       \* the entries of one card record (a JSON object)
    result,     \* the Result of deserialising the record into a Card
    cpc,        \* "idle" | "received" | "serialized" | "decoded"
    filter,     \* None, or Some(<<enumeration, member>>): a filter value to render
    text,       \* None, or Some(the text Display::fmt wrote for the filter value)
    call,       \* client.rs: the call made on the Client: get or get_by_name
    url,        \* the URL the call requested
    response,   \* the response to the request: its status and its body
    outcome,    \* what the call returned
    kpc         \* "idle" | "sent" | "responded" | "returned"

reqVars == <<request, calls, rpc, params>>

cardVars == <<card, wire, result, cpc>>

renderVars == <<filter, text>>

clientVars == <<call, url, response, outcome, kpc>>

vars ==
    <<request, calls, rpc, params, card, wire, result, cpc, filter, text, call, url,
      response, outcome, kpc>>

-----------------------------------------------------------------------------
(* Bounds *)

MaxCalls == 3

\* The most card records in the envelope of a response.
MaxCards == 2

-----------------------------------------------------------------------------
(* Text helpers *)

CharAt(s, i) == SubSeq(s, i, i)

Range(f) == {f[i] : i \in DOMAIN f}

\* Position of the one-character string c in s, 0 when absent.
RECURSIVE IndexFrom(_, _, _)
IndexFrom(s, c, i) ==
    IF i > Len(s) THEN 0
    ELSE IF CharAt(s, i) = c THEN i
    ELSE IndexFrom(s, c, i + 1)

IndexOf(s, c) == IndexFrom(s, c, 1)

\* The printable ASCII characters in code order: codes 32..95 and 97..126
\* (code 96, the backquote, cannot be written in a string here and is left out
\* of the alphabet).
AsciiLow ==
    " !\"#$%&'()*+,-./0123456789:;<=>?@ABCDEFGHIJKLMNOPQRSTUVWXYZ[\\]^_"

AsciiHigh == "abcdefghijklmnopqrstuvwxyz{|}~"

Alphabet ==
    {CharAt(AsciiLow, i) : i \in 1..Len(AsciiLow)}
        \cup {CharAt(AsciiHigh, i) : i \in 1..Len(AsciiHigh)}

\* The byte (ASCII code) of a character, and the character of a byte.
Byte(c) ==
    IF IndexOf(AsciiLow, c) > 0 THEN IndexOf(AsciiLow, c) + 31
    ELSE IndexOf(AsciiHigh, c) + 96

Chr(b) == IF b < 96 THEN CharAt(AsciiLow, b - 31) ELSE CharAt(AsciiHigh, b - 96)

HexDigits == "0123456789ABCDEF"

Hex(b) == CharAt(HexDigits, (b \div 16) + 1) \o CharAt(HexDigits, (b % 16) + 1)

Digits == "0123456789"

\* format!("{}", n) for an unsigned integer.
RECURSIVE fmt_unsigned(_)
fmt_unsigned(n) ==
    IF n < 10 THEN CharAt(Digits, n + 1)
    ELSE fmt_unsigned(n \div 10) \o CharAt(Digits, (n % 10) + 1)

\* format!("{}", n) for i32.
fmt_i32(n) == IF n < 0 THEN "-" \o fmt_unsigned(0 - n) ELSE fmt_unsigned(n)

\* format!("{}", n) for u8.
fmt_u8(n) == fmt_unsigned(n)

\* [T]::join(sep) on a Vec of strings.
RECURSIVE join(_, _)
join(v, sep) ==
    IF v = <<>> THEN ""
    ELSE IF Len(v) = 1 THEN v[1]
    ELSE v[1] \o sep \o join(Tail(v), sep)

\* urlencoding::encode: every byte outside A-Z a-z 0-9 - _ . ~ becomes %XX.
Unreserved ==
    Alphabet \cap
    ({CharAt("ABCDEFGHIJKLMNOPQRSTUVWXYZ", i) : i \in 1..26}
       \cup {CharAt("abcdefghijklmnopqrstuvwxyz", i) : i \in 1..26}
       \cup {CharAt(Digits, i) : i \in 1..10}
       \cup {"-", "_", ".", "~"})

\* Mutant: the delimiters of a query string kept as they are.
encode_byte_keeps_delimiters(c) ==
    IF c \in Unreserved \cup {"&", "="} THEN c ELSE "%" \o Hex(Byte(c))

encode_byte(c) == IF c \in Unreserved THEN c ELSE "%" \o Hex(Byte(c))

RECURSIVE encode_from(_, _)
encode_from(s, i) ==
    IF i > Len(s) THEN ""
    ELSE encode_byte(CharAt(s, i)) \o encode_from(s, i + 1)

encode(s) == encode_from(s, 1)

\* str::to_uppercase on ASCII text.
Lower == "abcdefghijklmnopqrstuvwxyz"

Upper == "ABCDEFGHIJKLMNOPQRSTUVWXYZ"

upper_char(c) == IF IndexOf(Lower, c) > 0 THEN CharAt(Upper, IndexOf(Lower, c)) ELSE c

RECURSIVE to_uppercase_from(_, _)
to_uppercase_from(s, i) ==
    IF i > Len(s) THEN ""
    ELSE upper_char(CharAt(s, i)) \o to_uppercase_from(s, i + 1)

to_uppercase(s) == to_uppercase_from(s, 1)

-----------------------------------------------------------------------------
(* The enumerations of request.rs and card.rs *)

\* enum CardType: its members, by their internal names.
CardTypeMembers ==
    {"EffectMonster", "FlipEffectMonster", "FlipTunerEffectMonster",
     "GeminiMonster", "NormalMonster", "NormalTunerMonster",
     "PendulumEffectMonster", "PendulumEffectRitualMonster", "PendulumFlipEffectMonster",
     "PendulumNormalMonster", "PendulumTunerEffectMonster", "RitualEffectMonster",
     "RitualMonster", "SpiritMonster", "ToonMonster",
     "TunerMonster", "UnionEffectMonster", "FusionMonster",
     "LinkMonster", "PendulumEffectFusionMonster", "SynchroMonster",
     "SynchroPendulumEffectMonster", "SynchroTunerMonster", "XYZMonster",
     "XYZPendulumEffectMonster", "Token", "Spell",
     "Trap", "Skill"}

\* The name serde gives a member: its #[serde(rename)], else its own name.
serde_name_CardType(m) ==
    CASE m = "EffectMonster" -> "Effect Monster"
      [] m = "FlipEffectMonster" -> "Flip Effect Monster"
      [] m = "FlipTunerEffectMonster" -> "Flip Tuner Effect Monster"
      [] m = "GeminiMonster" -> "Gemini Monster"
      [] m = "NormalMonster" -> "Normal Monster"
      [] m = "NormalTunerMonster" -> "Normal Tuner Monster"
      [] m = "PendulumEffectMonster" -> "Pendulum Effect Monster"
      [] m = "PendulumEffectRitualMonster" -> "Pendulum Effect Ritual Monster"
      [] m = "PendulumFlipEffectMonster" -> "Pendulum Flip Effect Monster"
      [] m = "PendulumNormalMonster" -> "Pendulum Normal Monster"
      [] m = "PendulumTunerEffectMonster" -> "Pendulum Tuner Effect Monster"
      [] m = "RitualEffectMonster" -> "Ritual Effect Monster"
      [] m = "RitualMonster" -> "Ritual Monster"
      [] m = "SpiritMonster" -> "Spirit Monster"
      [] m = "ToonMonster" -> "Toon Monster"
      [] m = "TunerMonster" -> "Tuner Monster"
      [] m = "UnionEffectMonster" -> "Union Effect Monster"
      [] m = "FusionMonster" -> "Fusion Monster"
      [] m = "LinkMonster" -> "Link Monster"
      [] m = "PendulumEffectFusionMonster" -> "Pendulum Effect Fusion Monster"
      [] m = "SynchroMonster" -> "Synchro Monster"
      [] m = "SynchroPendulumEffectMonster" -> "Synchro Pendulum Effect Monster"
      [] m = "SynchroTunerMonster" -> "Synchro Tuner Monster"
      [] m = "XYZMonster" -> "XYZ Monster"
      [] m = "XYZPendulumEffectMonster" -> "XYZ Pendulum Effect Monster"
      [] m = "Token" -> "Token"
      [] m = "Spell" -> "Spell Card"
      [] m = "Trap" -> "Trap Card"
      [] m = "Skill" -> "Skil Card"

\* impl Display for CardType.
fmt_CardType(m) ==
    CASE m = "EffectMonster" -> "Effect Monster"
      [] m = "FlipEffectMonster" -> "Flip Effect Monster"
      [] m = "FlipTunerEffectMonster" -> "Flip Tuner Effect Monster"
      [] m = "GeminiMonster" -> "Gemini Monster"
      [] m = "NormalMonster" -> "Normal Monster"
      [] m = "NormalTunerMonster" -> "Normal Tuner Monster"
      [] m = "PendulumEffectMonster" -> "Pendulum Effect Monster"
      [] m = "PendulumEffectRitualMonster" -> "Pendulum Effect Ritual Monster"
      [] m = "PendulumFlipEffectMonster" -> "Pendulum Flip Effect Monster"
      [] m = "PendulumNormalMonster" -> "Pendulum Normal Monster"
      [] m = "PendulumTunerEffectMonster" -> "Pendulum Tuner Effect Monster"
      [] m = "RitualEffectMonster" -> "Ritual Effect Monster"
      [] m = "RitualMonster" -> "Ritual Monster"
      [] m = "SpiritMonster" -> "Spirit Monster"
      [] m = "ToonMonster" -> "Toon Monster"
      [] m = "TunerMonster" -> "Tuner Monster"
      [] m = "UnionEffectMonster" -> "Union Effect Monster"
      [] m = "FusionMonster" -> "Fusion Monster"
      [] m = "LinkMonster" -> "Link Monster"
      [] m = "PendulumEffectFusionMonster" -> "Pendulum Effect Fusion Monster"
      [] m = "SynchroMonster" -> "Synchro Monster"
      [] m = "SynchroPendulumEffectMonster" -> "Synchro Pendulum Effect Monster"
      [] m = "SynchroTunerMonster" -> "Synchro Tuner Monster"
      [] m = "XYZMonster" -> "XYZ Monster"
      [] m = "XYZPendulumEffectMonster" -> "XYZ Pendulum Effect Monster"
      [] m = "Token" -> "Token"
      [] m = "Spell" -> "Spell Card"
      [] m = "Trap" -> "Trap Card"
      [] m = "Skill" -> "Skill Card"

\* enum MonsterRace: its members, by their internal names.
MonsterRaceMembers ==
    {"Aqua", "Beast", "BeastWarrior",
     "CreatorGod", "Cyberse", "Dinosaur",
     "DivineBeast", "Dragon", "Fairy",
     "Fiend", "Fish", "Illusion",
     "Insect", "Machine", "Plant",
     "Psychic", "Pyro", "Reptile",
     "Rock", "SeaSerpent", "Spellcaster",
     "Thunder", "Warrior", "WingedBeast",
     "Wyrm", "Zombie"}

\* The name serde gives a member: its #[serde(rename)], else its own name.
serde_name_MonsterRace(m) ==
    CASE m = "Aqua" -> "Aqua"
      [] m = "Beast" -> "Beast"
      [] m = "BeastWarrior" -> "Beast-Warrior"
      [] m = "CreatorGod" -> "Creator-God"
      [] m = "Cyberse" -> "Cyberse"
      [] m = "Dinosaur" -> "Dinosaur"
      [] m = "DivineBeast" -> "Divine-Beast"
      [] m = "Dragon" -> "Dragon"
      [] m = "Fairy" -> "Fairy"
      [] m = "Fiend" -> "Fiend"
      [] m = "Fish" -> "Fish"
      [] m = "Illusion" -> "Illusion"
      [] m = "Insect" -> "Insect"
      [] m = "Machine" -> "Machine"
      [] m = "Plant" -> "Plant"
      [] m = "Psychic" -> "Psychic"
      [] m = "Pyro" -> "Pyro"
      [] m = "Reptile" -> "Reptile"
      [] m = "Rock" -> "Rock"
      [] m = "SeaSerpent" -> "Sea Serpent"
      [] m = "Spellcaster" -> "Spellcaster"
      [] m = "Thunder" -> "Thunder"
      [] m = "Warrior" -> "Warrior"
      [] m = "WingedBeast" -> "Winged Beast"
      [] m = "Wyrm" -> "Wyrm"
      [] m = "Zombie" -> "Zombie"

\* impl Display for MonsterRace.
fmt_MonsterRace(m) ==
    CASE m = "Aqua" -> "Aqua"
      [] m = "Beast" -> "Beast"
      [] m = "BeastWarrior" -> "Beast-Warrior"
      [] m = "CreatorGod" -> "Creator-God"
      [] m = "Cyberse" -> "Cyberse"
      [] m = "Dinosaur" -> "Dinosaur"
      [] m = "DivineBeast" -> "Divine-Beast"
      [] m = "Dragon" -> "Dragon"
      [] m = "Fairy" -> "Fairy"
      [] m = "Fiend" -> "Fiend"
      [] m = "Fish" -> "Fish"
      [] m = "Illusion" -> "Illusion"
      [] m = "Insect" -> "Insect"
      [] m = "Machine" -> "Machine"
      [] m = "Plant" -> "Plant"
      [] m = "Psychic" -> "Psychic"
      [] m = "Pyro" -> "Pyro"
      [] m = "Reptile" -> "Reptile"
      [] m = "Rock" -> "Rock"
      [] m = "SeaSerpent" -> "Sea Serpent"
      [] m = "Spellcaster" -> "Spellcaster"
      [] m = "Thunder" -> "Thunder"
      [] m = "Warrior" -> "Warrior"
      [] m = "WingedBeast" -> "Winged Beast"
      [] m = "Wyrm" -> "Wyrm"
      [] m = "Zombie" -> "Zombie"

\* enum Attribute: its members, by their internal names.
AttributeMembers ==
    {"Light", "Dark", "Water",
     "Fire", "Earth", "Wind",
     "Divine"}

\* #[serde(rename_all = "UPPERCASE")]: the name serde gives a member.
serde_name_Attribute(m) == to_uppercase(m)

\* impl Display for Attribute.
fmt_Attribute(m) ==
    CASE m = "Light" -> "LIGHT"
      [] m = "Dark" -> "DARK"
      [] m = "Water" -> "WATER"
      [] m = "Fire" -> "FIRE"
      [] m = "Earth" -> "EARTH"
      [] m = "Wind" -> "WIND"
      [] m = "Divine" -> "DIVINE"

\* enum LinkMarker: its members, by their internal names.
LinkMarkerMembers ==
    {"Top", "TopLeft", "TopRight",
     "Left", "Right", "Bottom",
     "BottomLeft", "BottomRight"}

\* The name serde gives a member: its #[serde(rename)], else its own name.
serde_name_LinkMarker(m) ==
    CASE m = "Top" -> "Top"
      [] m = "TopLeft" -> "Top-Left"
      [] m = "TopRight" -> "Top-Right"
      [] m = "Left" -> "Left"
      [] m = "Right" -> "Right"
      [] m = "Bottom" -> "Bottom"
      [] m = "BottomLeft" -> "Bottom-Left"
      [] m = "BottomRight" -> "Bottom-Right"

\* impl Display for LinkMarker.
fmt_LinkMarker(m) ==
    CASE m = "Top" -> "Top"
      [] m = "TopLeft" -> "Top-Left"
      [] m = "TopRight" -> "Top-Right"
      [] m = "Left" -> "Left"
      [] m = "Right" -> "Right"
      [] m = "Bottom" -> "Bottom"
      [] m = "BottomLeft" -> "Bottom-Left"
      [] m = "BottomRight" -> "Bottom-Right"

\* enum MonsterType: its members, by their internal names.
MonsterTypeMembers ==
    {"EffectMonster", "FlipEffectMonster", "FlipTunerEffectMonster",
     "GeminiMonster", "NormalMonster", "NormalTunerMonster",
     "PendulumEffectMonster", "PendulumEffectRitualMonster", "PendulumFlipEffectMonster",
     "PendulumNormalMonster", "PendulumTunerEffectMonster", "RitualEffectMonster",
     "RitualMonster", "SpiritMonster", "ToonMonster",
     "TunerMonster", "UnionEffectMonster", "FusionMonster",
     "LinkMonster", "PendulumEffectFusionMonster", "SynchroMonster",
     "SynchroPendulumEffectMonster", "SynchroTunerMonster", "XYZMonster",
     "XYZPendulumEffectMonster", "Token"}

\* The name serde gives a member: its #[serde(rename)], else its own name.
serde_name_MonsterType(m) ==
    CASE m = "EffectMonster" -> "Effect Monster"
      [] m = "FlipEffectMonster" -> "Flip Effect Monster"
      [] m = "FlipTunerEffectMonster" -> "Flip Tuner Effect Monster"
      [] m = "GeminiMonster" -> "Gemini Monster"
      [] m = "NormalMonster" -> "Normal Monster"
      [] m = "NormalTunerMonster" -> "Normal Tuner Monster"
      [] m = "PendulumEffectMonster" -> "Pendulum Effect Monster"
      [] m = "PendulumEffectRitualMonster" -> "Pendulum Effect Ritual Monster"
      [] m = "PendulumFlipEffectMonster" -> "Pendulum Flip Effect Monster"
      [] m = "PendulumNormalMonster" -> "Pendulum Normal Monster"
      [] m = "PendulumTunerEffectMonster" -> "Pendulum Tuner Effect Monster"
      [] m = "RitualEffectMonster" -> "Ritual Effect Monster"
      [] m = "RitualMonster" -> "Ritual Monster"
      [] m = "SpiritMonster" -> "Spirit Monster"
      [] m = "ToonMonster" -> "Toon Monster"
      [] m = "TunerMonster" -> "Tuner Monster"
      [] m = "UnionEffectMonster" -> "Union Effect Monster"
      [] m = "FusionMonster" -> "Fusion Monster"
      [] m = "LinkMonster" -> "Link Monster"
      [] m = "PendulumEffectFusionMonster" -> "Pendulum Effect Fusion Monster"
      [] m = "SynchroMonster" -> "Synchro Monster"
      [] m = "SynchroPendulumEffectMonster" -> "Synchro Pendulum Effect Monster"
      [] m = "SynchroTunerMonster" -> "Synchro Tuner Monster"
      [] m = "XYZMonster" -> "XYZ Monster"
      [] m = "XYZPendulumEffectMonster" -> "XYZ Pendulum Effect Monster"
      [] m = "Token" -> "Token"

\* enum SpellRace: its members, by their internal names.
SpellRaceMembers ==
    {"Normal", "Field", "Equip",
     "Continuous", "QuickPlay", "Ritual"}

\* The name serde gives a member: its #[serde(rename)], else its own name.
serde_name_SpellRace(m) ==
    CASE m = "Normal" -> "Normal"
      [] m = "Field" -> "Field"
      [] m = "Equip" -> "Equip"
      [] m = "Continuous" -> "Continuous"
      [] m = "QuickPlay" -> "Quick-Play"
      [] m = "Ritual" -> "Ritual"

\* enum TrapRace: its members, by their internal names.
TrapRaceMembers ==
    {"Normal", "Continuous", "Counter"}

\* The name serde gives a member: its #[serde(rename)], else its own name.
serde_name_TrapRace(m) ==
    CASE m = "Normal" -> "Normal"
      [] m = "Continuous" -> "Continuous"
      [] m = "Counter" -> "Counter"

\* Option<T>: None is the empty sequence, Some(x) the sequence of x.
None == <<>>

Some(x) == <<x>>

-----------------------------------------------------------------------------
(* JSON documents *)

\* A JSON value: a number, a string, an array of values, or an object, which is
\* the sequence of its entries in document order.
JNum(n) == [t |-> "number", num |-> n]

JStr(s) == [t |-> "string", str |-> s]

JArr(a) == [t |-> "array", arr |-> a]

JObj(entries) == [t |-> "object", obj |-> entries]

Entry(key, value) == [k |-> key, v |-> value]

Keys(entries) == {entries[i].k : i \in DOMAIN entries}

HasKey(entries, key) == key \in Keys(entries)

\* The value of the first entry with the key.
ValueAt(entries, key) ==
    entries[CHOOSE i \in DOMAIN entries :
                /\ entries[i].k = key
                /\ \A j \in 1..(i - 1) : entries[j].k # key].v

RemoveKey(entries, key) == SelectSeq(entries, LAMBDA e : e.k # key)

SetKey(entries, key, value) ==
    [i \in DOMAIN entries |->
        IF entries[i].k = key THEN Entry(key, value) ELSE entries[i]]

-----------------------------------------------------------------------------
(* serde: results and errors *)

UnitValue == [unit |-> TRUE]

NoError == [kind |-> "", arg |-> ""]

\* Ok(value)
Ok(v) == [ok |-> TRUE, val |-> v, err |-> NoError]

\* Err(serde::de::Error): the kind of the message and the name it quotes, as in
\* "missing field <arg>", "unknown variant <arg>", "duplicate field <arg>",
\* "invalid type: ..., expected <arg>", "invalid value: ..., expected <arg>".
Fail(kind, arg) == [ok |-> FALSE, val |-> UnitValue, err |-> [kind |-> kind, arg |-> arg]]

-----------------------------------------------------------------------------
(* card.rs: the shapes of the records, as serde derives them *)

\* The types of the fields.
TyInt(name, lo, hi) == [k |-> "int", name |-> name, lo |-> lo, hi |-> hi]

TyU8 == TyInt("u8", 0, 255)

TyI32 == TyInt("i32", (0 - 2147483647) - 1, 2147483647)

\* u64 ends at 2^64 - 1; the numbers of the documents modelled here end at
\* 2^31 - 1, so only the lower limit of u64 can be crossed.
TyU64 == TyInt("u64", 0, 2147483647)

TyString == [k |-> "string", name |-> "a string"]

TyEnum(e) == [k |-> "enum", name |-> e]

TyVec(of) == [k |-> "vec", name |-> "a sequence", of |-> of]

TyStruct(s) == [k |-> "struct", name |-> s]

\* pub struct CardId(pub u64): a newtype, (de)serialised as its u64.
TyCardId == [k |-> "newtype", name |-> "CardId", of |-> TyU64]

\* Card, as an element of the data of a response.
TyCard == [k |-> "card", name |-> "Card"]

\* A field: its key in the record (#[serde(rename)] or its own name), its name
\* in the struct, its type, and its serde attribute: "" (none), "default" or
\* "flatten".
Field(key, name, ty, attr) == [key |-> key, name |-> name, ty |-> ty, attr |-> attr]

CardInfoFields ==
    <<Field("id", "id", TyCardId, ""),
      Field("name", "name", TyString, ""),
      Field("desc", "desc", TyString, ""),
      Field("humanReadableCardType", "human_readable_card_type", TyString, ""),
      Field("ygoprodeck_url", "ygoprodeck_url", TyString, ""),
      Field("card_sets", "sets", TyVec(TyStruct("CardSet")), "default"),
      Field("card_images", "images", TyVec(TyStruct("CardImage")), ""),
      Field("card_prices", "prices", TyVec(TyStruct("CardPrices")), "default")>>

InfoField == Field("", "info", TyStruct("CardInfo"), "flatten")

NormalMonsterFields ==
    <<InfoField,
      Field("race", "race", TyEnum("MonsterRace"), ""),
      Field("attribute", "attribute", TyEnum("Attribute"), ""),
      Field("level", "level", TyU8, ""),
      Field("atk", "atk", TyI32, ""),
      Field("def", "def", TyI32, ""),
      Field("type", "card_type", TyEnum("MonsterType"), "")>>

\* EffectMonsterFields with atk marked #[serde(default)].
EffectMonsterFields_atk_defaulted ==
    <<InfoField,
      Field("race", "race", TyEnum("MonsterRace"), ""),
      Field("attribute", "attribute", TyEnum("Attribute"), ""),
      Field("atk", "atk", TyI32, "default"),
      Field("def", "def", TyI32, ""),
      Field("level", "level", TyU8, ""),
      Field("type", "card_type", TyEnum("MonsterType"), "")>>

\* EffectMonster, RitualMonster, FusionMonster and SynchroMonster declare the
\* same fields in the same order.
EffectMonsterFields ==
    <<InfoField,
      Field("race", "race", TyEnum("MonsterRace"), ""),
      Field("attribute", "attribute", TyEnum("Attribute"), ""),
      Field("atk", "atk", TyI32, ""),
      Field("def", "def", TyI32, ""),
      Field("level", "level", TyU8, ""),
      Field("type", "card_type", TyEnum("MonsterType"), "")>>

RitualMonsterFields == EffectMonsterFields

FusionMonsterFields == EffectMonsterFields

SynchroMonsterFields == EffectMonsterFields

XyzMonsterFields ==
    <<InfoField,
      Field("race", "race", TyEnum("MonsterRace"), ""),
      Field("attribute", "attribute", TyEnum("Attribute"), ""),
      Field("atk", "atk", TyI32, ""),
      Field("def", "def", TyI32, ""),
      Field("level", "rank", TyU8, ""),
      Field("type", "card_type", TyEnum("MonsterType"), "")>>

PendulumMonsterFields ==
    <<InfoField,
      Field("race", "race", TyEnum("MonsterRace"), ""),
      Field("attribute", "attribute", TyEnum("Attribute"), ""),
      Field("atk", "atk", TyI32, ""),
      Field("def", "def", TyI32, ""),
      Field("level", "level", TyU8, ""),
      Field("type", "card_type", TyEnum("MonsterType"), ""),
      Field("scale", "scale", TyU8, "")>>

LinkMonsterFields ==
    <<InfoField,
      Field("race", "race", TyEnum("MonsterRace"), ""),
      Field("attribute", "attribute", TyEnum("Attribute"), ""),
      Field("atk", "atk", TyI32, ""),
      Field("linkval", "linkval", TyU8, ""),
      Field("type", "card_type", TyEnum("MonsterType"), ""),
      Field("linkmarkers", "link_markers", TyVec(TyEnum("LinkMarker")), "")>>

SpellCardFields ==
    <<InfoField, Field("race", "race", TyEnum("SpellRace"), "")>>

TrapCardFields ==
    <<InfoField, Field("race", "race", TyEnum("TrapRace"), "")>>

CardSetFields ==
    <<Field("set_name", "name", TyString, ""),
      Field("set_code", "code", TyString, ""),
      Field("set_rarity", "rarity", TyString, ""),
      Field("set_rarity_code", "rarity_code", TyString, ""),
      Field("set_price", "price", TyString, "")>>

CardImageFields ==
    <<Field("id", "id", TyU64, ""),
      Field("image_url", "url", TyString, ""),
      Field("image_url_small", "url_small", TyString, ""),
      Field("image_url_cropped", "url_cropped", TyString, "")>>

CardPricesFields ==
    <<Field("cardmarket_price", "cardmarket", TyString, ""),
      Field("tcgplayer_price", "tcgplayer", TyString, ""),
      Field("ebay_price", "ebay", TyString, ""),
      Field("amazon_price", "amazon", TyString, ""),
      Field("coolstuffinc_price", "coolstuffinc", TyString, "")>>

\* client.rs: struct ApiResponse { data: Vec<Card> }
ApiResponseFields == <<Field("data", "data", TyVec(TyCard), "")>>

StructFields(s) ==
    CASE s = "CardInfo" -> CardInfoFields
      [] s = "ApiResponse" -> ApiResponseFields
      [] s = "NormalMonster" -> NormalMonsterFields
      [] s = "EffectMonster" -> EffectMonsterFields
      [] s = "RitualMonster" -> RitualMonsterFields
      [] s = "FusionMonster" -> FusionMonsterFields
      [] s = "SynchroMonster" -> SynchroMonsterFields
      [] s = "XyzMonster" -> XyzMonsterFields
      [] s = "PendulumMonster" -> PendulumMonsterFields
      [] s = "LinkMonster" -> LinkMonsterFields
      [] s = "SpellCard" -> SpellCardFields
      [] s = "TrapCard" -> TrapCardFields
      [] s = "CardSet" -> CardSetFields
      [] s = "CardImage" -> CardImageFields
      [] s = "CardPrices" -> CardPricesFields

EnumMembers(e) ==
    CASE e = "CardType" -> CardTypeMembers
      [] e = "MonsterRace" -> MonsterRaceMembers
      [] e = "Attribute" -> AttributeMembers
      [] e = "LinkMarker" -> LinkMarkerMembers
      [] e = "MonsterType" -> MonsterTypeMembers
      [] e = "SpellRace" -> SpellRaceMembers
      [] e = "TrapRace" -> TrapRaceMembers

serde_name(e, m) ==
    CASE e = "CardType" -> serde_name_CardType(m)
      [] e = "MonsterRace" -> serde_name_MonsterRace(m)
      [] e = "Attribute" -> serde_name_Attribute(m)
      [] e = "LinkMarker" -> serde_name_LinkMarker(m)
      [] e = "MonsterType" -> serde_name_MonsterType(m)
      [] e = "SpellRace" -> serde_name_SpellRace(m)
      [] e = "TrapRace" -> serde_name_TrapRace(m)

\* enum Card, #[serde(tag = "frameType")]: the key of the discriminator.
tag_key == "frameType"

\* The variants of Card.
CardVariants ==
    {"Normal", "Effect", "Ritual", "Fusion", "Synchro", "Xyz", "Link", "Spell",
     "Trap", "Skill", "Token", "Pendulum"}

\* The variants without a payload.
UnitVariants == {"Skill", "Token"}

\* The struct a variant wraps.
variant_struct(variant) ==
    CASE variant = "Normal" -> "NormalMonster"
      [] variant = "Effect" -> "EffectMonster"
      [] variant = "Ritual" -> "RitualMonster"
      [] variant = "Fusion" -> "FusionMonster"
      [] variant = "Synchro" -> "SynchroMonster"
      [] variant = "Xyz" -> "XyzMonster"
      [] variant = "Link" -> "LinkMonster"
      [] variant = "Spell" -> "SpellCard"
      [] variant = "Trap" -> "TrapCard"
      [] variant = "Pendulum" -> "PendulumMonster"

\* Mutant: Pendulum renamed to another of its accepted discriminators.
variant_rename_effect_pendulum(variant) ==
    CASE variant = "Normal" -> "normal"
      [] variant = "Effect" -> "effect"
      [] variant = "Ritual" -> "ritual"
      [] variant = "Fusion" -> "fusion"
      [] variant = "Synchro" -> "synchro"
      [] variant = "Xyz" -> "xyz"
      [] variant = "Link" -> "link"
      [] variant = "Spell" -> "spell"
      [] variant = "Trap" -> "trap"
      [] variant = "Skill" -> "skill"
      [] variant = "Token" -> "token"
      [] variant = "Pendulum" -> "effect_pendulum"

\* #[serde(rename = ...)]: the discriminator a variant is serialised with.
variant_rename(variant) ==
    CASE variant = "Normal" -> "normal"
      [] variant = "Effect" -> "effect"
      [] variant = "Ritual" -> "ritual"
      [] variant = "Fusion" -> "fusion"
      [] variant = "Synchro" -> "synchro"
      [] variant = "Xyz" -> "xyz"
      [] variant = "Link" -> "link"
      [] variant = "Spell" -> "spell"
      [] variant = "Trap" -> "trap"
      [] variant = "Skill" -> "skill"
      [] variant = "Token" -> "token"
      [] variant = "Pendulum" -> "normal_pendulum"

\* variant_aliases with the last alias of Pendulum left out.
variant_aliases_without_xyz(variant) ==
    IF variant = "Pendulum"
    THEN {"effect_pendulum", "ritual_pendulum", "fusion_pendulum", "synchro_pendulum"}
    ELSE {}

\* #[serde(alias = ...)]: the other discriminators a variant is deserialised from.
variant_aliases(variant) ==
    IF variant = "Pendulum"
    THEN {"effect_pendulum", "ritual_pendulum", "fusion_pendulum",
          "synchro_pendulum", "xyz_pendulum"}
    ELSE {}

\* The discriminators a variant is deserialised from.
variant_names(variant) == {variant_rename(variant)} \cup variant_aliases(variant)

\* variants_of_tag comparing the strings without regard to case.
variants_of_tag_ignoring_case(t) ==
    {variant \in CardVariants :
        to_uppercase(t) \in {to_uppercase(n) : n \in variant_names(variant)}}

\* The variants a discriminator string selects; serde compares the strings
\* exactly.
variants_of_tag(t) == {variant \in CardVariants : t \in variant_names(variant)}

-----------------------------------------------------------------------------
(* card.rs: #[derive(Deserialize)] *)

\* The fields a struct reads itself, and the ones it flattens.
OwnFields(fields) == SelectSeq(fields, LAMBDA f : f.attr # "flatten")

FlattenFields(fields) == SelectSeq(fields, LAMBDA f : f.attr = "flatten")

FieldWithKey(fields, key) ==
    fields[CHOOSE i \in DOMAIN fields : fields[i].key = key]

FieldKeys(fields) == {fields[i].key : i \in DOMAIN fields}

FieldNames(fields) == {fields[i].name : i \in DOMAIN fields}

\* Default::default() of the type of a field: 0 for an integer, the empty Vec
\* (the fields marked #[serde(default)] are all Vecs).
default_value(ty) == IF ty.k = "int" THEN 0 ELSE <<>>

RECURSIVE de(_, _)
RECURSIVE de_vec(_, _, _)
RECURSIVE de_entries(_, _, _, _)
RECURSIVE de_missing(_, _, _)
RECURSIVE de_flatten(_, _, _, _)
RECURSIVE de_struct(_, _)
RECURSIVE de_Card(_)

\* The visitor's loop over the entries of the map, from entry i on: an entry
\* with the key of a field of the struct is deserialised into it (a second one
\* is a duplicate), any other entry is skipped (kept for the flattened
\* struct, if there is one). acc maps each field name to None or Some(value).
de_entries(fields, entries, i, acc) ==
    IF i > Len(entries) THEN Ok(acc)
    ELSE IF entries[i].k \notin FieldKeys(fields)
         THEN de_entries(fields, entries, i + 1, acc)
         ELSE LET f == FieldWithKey(fields, entries[i].k) IN
              IF acc[f.name] # None THEN Fail("duplicate field", f.key)
              ELSE LET r == de(f.ty, entries[i].v) IN
                   IF ~r.ok THEN r
                   ELSE de_entries(fields, entries, i + 1,
                                   [acc EXCEPT ![f.name] = Some(r.val)])

\* After the loop, the fields in declaration order from field i on: a field
\* that got no value takes its default or is a "missing field" error.
de_missing(fields, i, acc) ==
    IF i > Len(fields) THEN Ok(acc)
    ELSE LET f == fields[i] IN
         IF acc[f.name] # None THEN de_missing(fields, i + 1, acc)
         ELSE IF f.attr = "default"
              THEN de_missing(fields, i + 1,
                              [acc EXCEPT ![f.name] = Some(default_value(f.ty))])
              ELSE Fail("missing field", f.key)

\* Last, each flattened field is deserialised from the entries the loop
\* skipped.
de_flatten(flat, i, rest, acc) ==
    IF i > Len(flat) THEN Ok(acc)
    ELSE LET r == de_struct(flat[i].ty.name, rest) IN
         IF ~r.ok THEN r
         ELSE de_flatten(flat, i + 1, rest, [acc EXCEPT ![flat[i].name] = Some(r.val)])

\* de_struct refusing a key the struct does not declare, when the struct
\* flattens nothing (as under #[serde(deny_unknown_fields)]).
de_struct_deny_unknown(s, entries) ==
    LET fields == StructFields(s)
        own == OwnFields(fields)
        flat == FlattenFields(fields)
        empty == [n \in FieldNames(fields) |-> None]
        looped == de_entries(own, entries, 1, empty)
    IN  IF flat = <<>> /\ \E i \in DOMAIN entries : entries[i].k \notin FieldKeys(own)
        THEN Fail("unknown field", "")
        ELSE IF ~looped.ok THEN looped
        ELSE LET checked == de_missing(own, 1, looped.val) IN
             IF ~checked.ok THEN checked
             ELSE LET rest == SelectSeq(entries, LAMBDA e : e.k \notin FieldKeys(own))
                      all == de_flatten(flat, 1, rest, checked.val)
                  IN  IF ~all.ok THEN all
                      ELSE Ok([n \in FieldNames(fields) |-> all.val[n][1]])

\* A struct from the entries of a map.
de_struct(s, entries) ==
    LET fields == StructFields(s)
        own == OwnFields(fields)
        flat == FlattenFields(fields)
        empty == [n \in FieldNames(fields) |-> None]
        looped == de_entries(own, entries, 1, empty)
    IN  IF ~looped.ok THEN looped
        ELSE LET checked == de_missing(own, 1, looped.val) IN
             IF ~checked.ok THEN checked
             ELSE LET rest == SelectSeq(entries, LAMBDA e : e.k \notin FieldKeys(own))
                      all == de_flatten(flat, 1, rest, checked.val)
                  IN  IF ~all.ok THEN all
                      ELSE Ok([n \in FieldNames(fields) |-> all.val[n][1]])

\* de_vec putting each element in front of the ones read before it.
de_vec_reversed(of, elements, i) ==
    IF i > Len(elements) THEN Ok(<<>>)
    ELSE LET r == de(of, elements[i]) IN
         IF ~r.ok THEN r
         ELSE LET more == de_vec(of, elements, i + 1) IN
              IF ~more.ok THEN more ELSE Ok(more.val \o <<r.val>>)

\* Vec<T> from the elements of an array, from element i on.
de_vec(of, elements, i) ==
    IF i > Len(elements) THEN Ok(<<>>)
    ELSE LET r == de(of, elements[i]) IN
         IF ~r.ok THEN r
         ELSE LET more == de_vec(of, elements, i + 1) IN
              IF ~more.ok THEN more ELSE Ok(<<r.val>> \o more.val)

\* A value of a type from a JSON value.
de(ty, j) ==
    CASE ty.k = "int" ->
            IF j.t # "number" THEN Fail("invalid type", ty.name)
            ELSE IF j.num < ty.lo \/ j.num > ty.hi THEN Fail("invalid value", ty.name)
            ELSE Ok(j.num)
      [] ty.k = "string" ->
            IF j.t # "string" THEN Fail("invalid type", ty.name) ELSE Ok(j.str)
      [] ty.k = "newtype" -> de(ty.of, j)
      [] ty.k = "enum" ->
            IF j.t # "string" THEN Fail("invalid type", ty.name)
            ELSE IF \E m \in EnumMembers(ty.name) : serde_name(ty.name, m) = j.str
                 THEN Ok(CHOOSE m \in EnumMembers(ty.name) : serde_name(ty.name, m) = j.str)
                 ELSE Fail("unknown variant", j.str)
      [] ty.k = "vec" ->
            IF j.t # "array" THEN Fail("invalid type", ty.name)
            ELSE de_vec(ty.of, j.arr, 1)
      [] ty.k = "struct" ->
            IF j.t # "object" THEN Fail("invalid type", ty.name)
            ELSE de_struct(ty.name, j.obj)
      [] ty.k = "card" ->
            IF j.t # "object" THEN Fail("invalid type", ty.name) ELSE de_Card(j.obj)

\* A Card value: its variant and the struct the variant wraps.
Card(variant, value) == [variant |-> variant, value |-> value]

\* The discriminator of an internally tagged enum, read in the loop over the
\* entries of the record, from entry i on: the first frameType entry is
\* deserialised as the variant's name, a second one is a duplicate, no one at
\* all is a missing field.
RECURSIVE de_tag(_, _, _)
de_tag(entries, i, found) ==
    IF i > Len(entries)
    THEN IF found = None THEN Fail("missing field", tag_key) ELSE Ok(found[1])
    ELSE IF entries[i].k # tag_key THEN de_tag(entries, i + 1, found)
    ELSE IF found # None THEN Fail("duplicate field", tag_key)
    ELSE IF entries[i].v.t # "string" THEN Fail("invalid type", "variant identifier")
    ELSE IF variants_of_tag(entries[i].v.str) = {} THEN Fail("unknown variant", entries[i].v.str)
    ELSE de_tag(entries, i + 1,
                Some(CHOOSE variant \in variants_of_tag(entries[i].v.str) : TRUE))

\* Card::deserialize on a record (a JSON object, given by its entries): the
\* discriminator selects the variant; a unit variant ignores the rest of the
\* record, any other variant deserialises its struct from it.
de_Card(entries) ==
    LET tag == de_tag(entries, 1, None) IN
    IF ~tag.ok THEN tag
    ELSE IF tag.val \in UnitVariants THEN Ok(Card(tag.val, UnitValue))
    ELSE LET r == de_struct(variant_struct(tag.val), RemoveKey(entries, tag_key)) IN
         IF ~r.ok THEN r ELSE Ok(Card(tag.val, r.val))

-----------------------------------------------------------------------------
(* card.rs: #[derive(Serialize)] *)

RECURSIVE ser(_, _)
RECURSIVE ser_fields(_, _, _)

\* The entries a struct writes, field by field in declaration order from
\* field i on; a flattened field writes the entries of its struct in place.
ser_fields(fields, i, value) ==
    IF i > Len(fields) THEN <<>>
    ELSE LET f == fields[i] IN
         (IF f.attr = "flatten"
          THEN ser_fields(StructFields(f.ty.name), 1, value[f.name])
          ELSE <<Entry(f.key, ser(f.ty, value[f.name]))>>)
         \o ser_fields(fields, i + 1, value)

\* The JSON value of a value of a type.
ser(ty, v) ==
    CASE ty.k = "int" -> JNum(v)
      [] ty.k = "string" -> JStr(v)
      [] ty.k = "newtype" -> ser(ty.of, v)
      [] ty.k = "enum" -> JStr(serde_name(ty.name, v))
      [] ty.k = "vec" -> JArr([i \in 1..Len(v) |-> ser(ty.of, v[i])])
      [] ty.k = "struct" -> JObj(ser_fields(StructFields(ty.name), 1, v))

\* ser_Card writing the name of the variant in place of its rename.
ser_Card_unrenamed(c) ==
    <<Entry(tag_key, JStr(c.variant))>>
        \o (IF c.variant \in UnitVariants THEN <<>>
            ELSE ser_fields(StructFields(variant_struct(c.variant)), 1, c.value))

\* Card::serialize: the discriminator entry, then the entries of the struct.
ser_Card(c) ==
    <<Entry(tag_key, JStr(variant_rename(c.variant)))>>
        \o (IF c.variant \in UnitVariants THEN <<>>
            ELSE ser_fields(StructFields(variant_struct(c.variant)), 1, c.value))

-----------------------------------------------------------------------------
(* The card records a response carries, and the Card values a caller builds *)

SampleSet ==
    JObj(<<Entry("set_name", JStr("Metal Raiders")),
           Entry("set_code", JStr("MRD-064")),
           Entry("set_rarity", JStr("Common")),
           Entry("set_rarity_code", JStr("(C)")),
           Entry("set_price", JStr("1.52"))>>)

SampleImage ==
    JObj(<<Entry("id", JNum(78780140)),
           Entry("image_url", JStr("/images/cards/78780140.jpg")),
           Entry("image_url_small", JStr("/images/cards_small/78780140.jpg")),
           Entry("image_url_cropped", JStr("/images/cards_cropped/78780140.jpg"))>>)

SamplePrices ==
    JObj(<<Entry("cardmarket_price", JStr("0.09")),
           Entry("tcgplayer_price", JStr("0.17")),
           Entry("ebay_price", JStr("0.99")),
           Entry("amazon_price", JStr("0.25")),
           Entry("coolstuffinc_price", JStr("0.39"))>>)

\* The discriminators enum Card accepts.
AcceptedTags == UNION {variant_names(variant) : variant \in CardVariants}

PendulumTags ==
    {"normal_pendulum", "effect_pendulum", "ritual_pendulum", "fusion_pendulum",
     "synchro_pendulum", "xyz_pendulum"}

MonsterTags ==
    {"normal", "effect", "ritual", "fusion", "synchro", "xyz", "link"} \cup PendulumTags

\* Discriminators enum Card does not accept: other spellings and other cases
\* of the accepted ones.
UnknownTags == {"Normal", "XYZ", "pendulum", "NORMAL_PENDULUM", "spell ", ""}

RecordTags == AcceptedTags \cup UnknownTags

\* The type label the service sends with a discriminator.
TypeLabel(tag) ==
    CASE tag \in {"normal", "Normal"} -> "Normal Monster"
      [] tag = "effect" -> "Effect Monster"
      [] tag = "ritual" -> "Ritual Monster"
      [] tag = "fusion" -> "Fusion Monster"
      [] tag = "synchro" -> "Synchro Monster"
      [] tag \in {"xyz", "XYZ"} -> "XYZ Monster"
      [] tag = "link" -> "Link Monster"
      [] tag \in {"spell", "spell "} -> "Spell Card"
      [] tag = "trap" -> "Trap Card"
      [] tag = "skill" -> "Skill Card"
      [] tag = "token" -> "Token"
      [] tag = "xyz_pendulum" -> "XYZ Pendulum Effect Monster"
      [] tag = "synchro_pendulum" -> "Synchro Pendulum Effect Monster"
      [] tag = "fusion_pendulum" -> "Pendulum Effect Fusion Monster"
      [] tag = "ritual_pendulum" -> "Pendulum Effect Ritual Monster"
      [] tag = "normal_pendulum" -> "Pendulum Normal Monster"
      [] OTHER -> "Pendulum Effect Monster"

\* The entries every record starts and ends with.
HeadEntries(tag) ==
    <<Entry("id", JNum(78780140)),
      Entry("name", JStr("Trent")),
      Entry("type", JStr(TypeLabel(tag))),
      Entry("humanReadableCardType", JStr(TypeLabel(tag))),
      Entry("frameType", JStr(tag)),
      Entry("desc", JStr("A guardian of the woods."))>>

TailEntries ==
    <<Entry("ygoprodeck_url", JStr("https://ygoprodeck.com/card/trent-6617")),
      Entry("card_sets", JArr(<<SampleSet>>)),
      Entry("card_images", JArr(<<SampleImage>>)),
      Entry("card_prices", JArr(<<SamplePrices>>))>>

\* The record the service sends for a card with a discriminator: the keys of
\* a Link monster, of a Pendulum monster, of a spell or trap, of a skill, and
\* of any other monster.
BaseRecord(tag) ==
    HeadEntries(tag)
    \o (CASE tag = "link" ->
               <<Entry("race", JStr("Fairy")),
                 Entry("atk", JNum(-1)),
                 Entry("linkval", JNum(4)),
                 Entry("linkmarkers",
                       JArr(<<JStr("Top"), JStr("Bottom-Left"), JStr("Bottom"),
                              JStr("Bottom-Right")>>)),
                 Entry("attribute", JStr("WIND"))>>
          [] tag \in {"spell", "spell "} -> <<Entry("race", JStr("Quick-Play"))>>
          [] tag = "trap" -> <<Entry("race", JStr("Counter"))>>
          [] tag = "skill" -> <<Entry("race", JStr("Kaiba"))>>
          [] tag \in PendulumTags \cup {"pendulum", "NORMAL_PENDULUM"} ->
               <<Entry("race", JStr("Sea Serpent")),
                 Entry("atk", JNum(1500)),
                 Entry("def", JNum(1800)),
                 Entry("level", JNum(5)),
                 Entry("attribute", JStr("WATER")),
                 Entry("scale", JNum(13))>>
          [] OTHER ->
               <<Entry("race", JStr("Plant")),
                 Entry("atk", JNum(1500)),
                 Entry("def", JNum(1800)),
                 Entry("level", JNum(5)),
                 Entry("attribute", JStr("EARTH"))>>)
    \o TailEntries

\* A key enum Card and its structs do not model.
ExtraEntry == Entry("archetype", JStr("Forest"))

\* The records of the model: for each discriminator the record of the service,
\* that record without one of its keys, and that record with one more key.
Payloads ==
    {BaseRecord(tag) : tag \in RecordTags}
        \cup UNION {{RemoveKey(BaseRecord(tag), key) : key \in Keys(BaseRecord(tag))} :
                        tag \in RecordTags}
        \cup {BaseRecord(tag) \o <<ExtraEntry>> : tag \in RecordTags}

\* CardInfo values.
SampleInfos ==
    {[id |-> 78780140, name |-> "Trent", desc |-> "A guardian of the woods.",
      human_readable_card_type |-> "Normal Monster",
      ygoprodeck_url |-> "https://ygoprodeck.com/card/trent-6617",
      sets |-> <<[name |-> "Metal Raiders", code |-> "MRD-064", rarity |-> "Common",
                  rarity_code |-> "(C)", price |-> "1.52"]>>,
      images |-> <<[id |-> 78780140, url |-> "a.jpg", url_small |-> "b.jpg",
                    url_cropped |-> "c.jpg"]>>,
      prices |-> <<[cardmarket |-> "0.09", tcgplayer |-> "0.17", ebay |-> "0.99",
                    amazon |-> "0.25", coolstuffinc |-> "0.39"]>>],
     [id |-> 0, name |-> "", desc |-> "", human_readable_card_type |-> "",
      ygoprodeck_url |-> "", sets |-> <<>>, images |-> <<>>, prices |-> <<>>]}

SampleRaces == {"Plant", "SeaSerpent"}

SampleAtks == {-1, 1500}

SampleLevels == {5, 255}

SampleMarkers == {<<>>, <<"Top", "BottomLeft", "Bottom", "BottomRight">>}

\* The Card values of the model, of every variant.
Cards ==
    {Card(variant, UnitValue) : variant \in UnitVariants}
    \cup {Card("Normal",
               [info |-> i, race |-> r, attribute |-> "Earth", level |-> l, atk |-> a,
                def |-> 1800, card_type |-> "NormalMonster"]) :
            i \in SampleInfos, r \in SampleRaces, l \in SampleLevels, a \in SampleAtks}
    \cup UNION {{Card(variant,
               [info |-> i, race |-> r, attribute |-> "Dark", atk |-> a, def |-> 0,
                level |-> l, card_type |-> "EffectMonster"]) :
            i \in SampleInfos, r \in SampleRaces, l \in SampleLevels, a \in SampleAtks} :
          variant \in {"Effect", "Ritual", "Fusion", "Synchro"}}
    \cup {Card("Xyz",
               [info |-> i, race |-> r, attribute |-> "Light", atk |-> a, def |-> 2000,
                rank |-> l, card_type |-> "XYZMonster"]) :
            i \in SampleInfos, r \in SampleRaces, l \in SampleLevels, a \in SampleAtks}
    \cup {Card("Pendulum",
               [info |-> i, race |-> r, attribute |-> "Water", atk |-> a, def |-> 2000,
                level |-> l, card_type |-> "PendulumEffectMonster", scale |-> 13]) :
            i \in SampleInfos, r \in SampleRaces, l \in SampleLevels, a \in SampleAtks}
    \cup {Card("Link",
               [info |-> i, race |-> r, attribute |-> "Wind", atk |-> a, linkval |-> 4,
                card_type |-> "LinkMonster", link_markers |-> m]) :
            i \in SampleInfos, r \in SampleRaces, m \in SampleMarkers, a \in SampleAtks}
    \cup {Card("Spell", [info |-> i, race |-> r]) :
            i \in SampleInfos, r \in SpellRaceMembers}
    \cup {Card("Trap", [info |-> i, race |-> r]) :
            i \in SampleInfos, r \in TrapRaceMembers}

-----------------------------------------------------------------------------
(* Encoding and decoding a card as a state machine *)

NoCard == Card("", UnitValue)

NoResult == Fail("", "")

\* A card record arrives in a response.
Receive == \E payload \in Payloads :
    /\ cpc = "idle"
    /\ wire' = payload
    /\ cpc' = "received"
    /\ UNCHANGED <<card, result>>
    /\ UNCHANGED reqVars
    /\ UNCHANGED renderVars
    /\ UNCHANGED clientVars

\* A Card value is serialised.
Serialize == \E c \in Cards :
    /\ cpc = "idle"
    /\ card' = c
    /\ wire' = ser_Card(c)
    /\ cpc' = "serialized"
    /\ UNCHANGED result
    /\ UNCHANGED reqVars
    /\ UNCHANGED renderVars
    /\ UNCHANGED clientVars

\* The record at hand is deserialised into a Card.
Deserialize ==
    /\ cpc \in {"received", "serialized"}
    /\ result' = de_Card(wire)
    /\ cpc' = "decoded"
    /\ UNCHANGED <<card, wire>>
    /\ UNCHANGED reqVars
    /\ UNCHANGED renderVars
    /\ UNCHANGED clientVars

InitCard ==
    /\ card = NoCard
    /\ wire = <<>>
    /\ result = NoResult
    /\ cpc = "idle"

-----------------------------------------------------------------------------
(* Display of the enumerations a Request filters by *)

\* The enumerations whose members Request::to_url_params writes with
\* to_string(): card_types, races, attributes, link_markers.
FilterEnums == {"CardType", "MonsterRace", "Attribute", "LinkMarker"}

FilterMembers == UNION {{<<e, m>> : m \in EnumMembers(e)} : e \in FilterEnums}

\* <T as Display>::fmt for the enumeration e.
fmt(e, m) ==
    CASE e = "CardType" -> fmt_CardType(m)
      [] e = "MonsterRace" -> fmt_MonsterRace(m)
      [] e = "Attribute" -> fmt_Attribute(m)
      [] e = "LinkMarker" -> fmt_LinkMarker(m)

\* value.to_string()
Render ==
    /\ filter # None
    /\ text = None
    /\ text' = Some(fmt(filter[1][1], filter[1][2]))
    /\ UNCHANGED filter
    /\ UNCHANGED reqVars
    /\ UNCHANGED cardVars
    /\ UNCHANGED clientVars

\* Nothing is being rendered.
InitRender ==
    /\ filter = None
    /\ text = None

-----------------------------------------------------------------------------
(* request.rs: Request, Request::to_url_params, RequestBuilder *)

\* Request::default(): every Vec empty, every Option None.
default_Request ==
    [names |-> <<>>, fname |-> None, atk |-> None, def |-> None, level |-> None,
     card_types |-> <<>>, races |-> <<>>, attributes |-> <<>>, link |-> None,
     link_markers |-> <<>>, scale |-> None, cardset |-> None]

\* .iter().map(|t| format!("{}", t)).collect::<Vec<_>>(), for each of the lists.
map_fmt_CardType(v) == [i \in 1..Len(v) |-> fmt_CardType(v[i])]

map_fmt_MonsterRace(v) == [i \in 1..Len(v) |-> fmt_MonsterRace(v[i])]

map_fmt_Attribute(v) == [i \in 1..Len(v) |-> fmt_Attribute(v[i])]

map_fmt_LinkMarker(v) == [i \in 1..Len(v) |-> fmt_LinkMarker(v[i])]

\* The separators of to_url_params.
\* Mutant: names joined like the other lists.
name_separator_comma == ","

name_separator == "|"

list_separator == ","

param_separator == "&"

\* The pushes of to_url_params, one per predicate: the parameter a predicate adds
\* to the Vec params, or nothing.
\* Mutant: the name parameter pushed without the is_empty test.
name_param_unguarded(r) == <<"name=" \o encode(join(r.names, name_separator))>>

name_param(r) ==
    IF r.names # <<>>
    THEN <<"name=" \o encode(join(r.names, name_separator))>> ELSE <<>>

\* Mutant: an empty fname treated as an absent one.
fname_param_skip_empty(r) ==
    IF r.fname # None /\ r.fname[1] # "" THEN <<"fname=" \o encode(r.fname[1])>> ELSE <<>>

fname_param(r) == IF r.fname # None THEN <<"fname=" \o encode(r.fname[1])>> ELSE <<>>

atk_param(r) == IF r.atk # None THEN <<"atk=" \o fmt_i32(r.atk[1])>> ELSE <<>>

def_param(r) == IF r.def # None THEN <<"def=" \o fmt_i32(r.def[1])>> ELSE <<>>

level_param(r) == IF r.level # None THEN <<"level=" \o fmt_u8(r.level[1])>> ELSE <<>>

type_param(r) ==
    IF r.card_types # <<>>
    THEN <<"type=" \o encode(join(map_fmt_CardType(r.card_types), list_separator))>>
    ELSE <<>>

race_param(r) ==
    IF r.races # <<>>
    THEN <<"race=" \o encode(join(map_fmt_MonsterRace(r.races), list_separator))>>
    ELSE <<>>

attribute_param(r) ==
    IF r.attributes # <<>>
    THEN <<"attribute="
             \o encode(join(map_fmt_Attribute(r.attributes), list_separator))>>
    ELSE <<>>

link_param(r) == IF r.link # None THEN <<"link=" \o fmt_u8(r.link[1])>> ELSE <<>>

linkmarker_param(r) ==
    IF r.link_markers # <<>>
    THEN <<"linkmarker="
             \o encode(join(map_fmt_LinkMarker(r.link_markers), list_separator))>>
    ELSE <<>>

scale_param(r) == IF r.scale # None THEN <<"scale=" \o fmt_u8(r.scale[1])>> ELSE <<>>

\* cardset_param writing the text as given, without encode.
cardset_param_unencoded(r) ==
    IF r.cardset # None THEN <<"cardset=" \o r.cardset[1]>> ELSE <<>>

cardset_param(r) ==
    IF r.cardset # None THEN <<"cardset=" \o encode(r.cardset[1])>> ELSE <<>>

\* Mutant: the link-marker parameter pushed before the link parameter.
url_params_vec_misordered(r) ==
    name_param(r) \o fname_param(r) \o atk_param(r) \o def_param(r)
        \o level_param(r) \o type_param(r) \o race_param(r) \o attribute_param(r)
        \o linkmarker_param(r) \o link_param(r) \o scale_param(r) \o cardset_param(r)

\* The Vec params of to_url_params after all its pushes, in the order of the code.
url_params_vec(r) ==
    name_param(r) \o fname_param(r) \o atk_param(r) \o def_param(r)
        \o level_param(r) \o type_param(r) \o race_param(r) \o attribute_param(r)
        \o link_param(r) \o linkmarker_param(r) \o scale_param(r) \o cardset_param(r)

\* Request::to_url_params
to_url_params(r) == join(url_params_vec(r), param_separator)

\* RequestBuilder::new
new_RequestBuilder == default_Request

\* The RequestBuilder operations: each takes the builder's request and returns
\* the request of the builder it returns.
with_name(r, name) == [r EXCEPT !.names = Append(@, name)]

with_fname(r, fname) == [r EXCEPT !.fname = Some(fname)]

with_atk(r, atk) == [r EXCEPT !.atk = Some(atk)]

with_def(r, def) == [r EXCEPT !.def = Some(def)]

with_level(r, level) == [r EXCEPT !.level = Some(level)]

\* Mutant: a card type already in the list is not added again.
with_type_dedup(r, card_type) ==
    IF card_type \in Range(r.card_types) THEN r
    ELSE [r EXCEPT !.card_types = Append(@, card_type)]

with_type(r, card_type) == [r EXCEPT !.card_types = Append(@, card_type)]

with_race(r, race) == [r EXCEPT !.races = Append(@, race)]

with_attribute(r, attribute) == [r EXCEPT !.attributes = Append(@, attribute)]

with_link(r, link) == [r EXCEPT !.link = Some(link)]

with_link_marker(r, link_marker) == [r EXCEPT !.link_markers = Append(@, link_marker)]

with_scale(r, scale) == [r EXCEPT !.scale = Some(scale)]

with_cardset(r, cardset) == [r EXCEPT !.cardset = Some(cardset)]

\* RequestBuilder::build
build(r) == r

-----------------------------------------------------------------------------
(* client.rs: Client::get, Client::get_by_name *)

\* The URL of the card search, up to the query.
endpoint == "https://db.ygoprodeck.com/api/v7/cardinfo.php?"

\* The URL Client::get requests for a request.
get_url(r) == endpoint \o to_url_params(r)

\* The URL Client::get_by_name requests for a name.
get_by_name_url_unencoded(name) == endpoint \o "name=" \o name

get_by_name_url(name) == endpoint \o "name=" \o encode(name)

\* The body of a response: a JSON value, or bytes that could not be read to
\* the end or are not JSON.
NotJson == [t |-> "invalid"]

\* response.json::<ApiResponse>()
json_ApiResponse(body) ==
    IF body.t = "invalid" THEN Fail("syntax", "") ELSE de(TyStruct("ApiResponse"), body)

\* What a call returns: Ok with the card or cards, or Err with the Error.
Returned(cards) == [ok |-> TRUE, cards |-> cards, err |-> ""]

Err(e) == [ok |-> FALSE, cards |-> <<>>, err |-> e]

\* Client::get after send() gave a response.
get_finish_partial(resp) ==
    IF resp.status = 400 THEN Err("NotFound")
    ELSE IF resp.body.t # "object" \/ ~HasKey(resp.body.obj, "data")
            \/ ValueAt(resp.body.obj, "data").t # "array"
         THEN Err("Deserialization")
         ELSE LET records == ValueAt(resp.body.obj, "data").arr
                  good == SelectSeq(records, LAMBDA j : j.t = "object" /\ de_Card(j.obj).ok)
              IN  Returned([i \in 1..Len(good) |-> de_Card(good[i].obj).val])

get_finish(resp) ==
    IF resp.status = 400 THEN Err("NotFound")
    ELSE LET json == json_ApiResponse(resp.body) IN
         IF ~json.ok THEN Err("Deserialization") ELSE Returned(json.val.data)

\* Client::get_by_name after send() gave a response.
get_by_name_finish_status_last(resp) ==
    LET json == json_ApiResponse(resp.body) IN
    IF ~json.ok THEN Err("Deserialization")
    ELSE IF resp.status = 400 THEN Err("NotFound")
    ELSE IF json.val.data = <<>> THEN Err("NotFound")
    ELSE Returned(<<json.val.data[1]>>)

get_by_name_finish(resp) ==
    IF resp.status = 400 THEN Err("NotFound")
    ELSE LET json == json_ApiResponse(resp.body) IN
         IF ~json.ok THEN Err("Deserialization")
         ELSE IF json.val.data = <<>> THEN Err("NotFound")
         ELSE Returned(<<json.val.data[1]>>)

\* The requests and names the calls are made with.
ClientNames == {"", "Trent", "a|b&c"}

ClientRequests ==
    {default_Request,
     build(with_attribute(with_type(new_RequestBuilder, "LinkMonster"), "Wind"))}
        \cup {build(with_name(new_RequestBuilder, n)) : n \in ClientNames}

\* The card records of a response: records that decode, and records with an
\* unknown discriminator, without a required field, with a string for a
\* number, and with a level outside u8.
GoodRecords == {BaseRecord("normal"), BaseRecord("link"), BaseRecord("xyz_pendulum")}

BadRecords ==
    {BaseRecord("XYZ"),
     RemoveKey(BaseRecord("effect"), "atk"),
     SetKey(BaseRecord("normal"), "atk", JStr("1500")),
     SetKey(BaseRecord("normal"), "level", JNum(256))}

ResponseRecords == GoodRecords \cup BadRecords

\* The lists of at most n records.
RECURSIVE RecordLists(_)
RecordLists(n) ==
    IF n = 0 THEN {<<>>}
    ELSE RecordLists(n - 1)
           \cup {<<r>> \o l : r \in ResponseRecords, l \in {m \in RecordLists(n - 1) : Len(m) = n - 1}}

\* The envelope of a list of records.
Envelope(records) ==
    JObj(<<Entry("data", JArr([i \in 1..Len(records) |-> JObj(records[i])]))>>)

\* The bodies of the model: envelopes, the error object of the service, an
\* envelope whose data is not a list, and a body that is not JSON.
Bodies ==
    {Envelope(l) : l \in RecordLists(MaxCards)}
        \cup {JObj(<<Entry("error", JStr("No card matching your query was found in the database."))>>),
              JObj(<<Entry("data", JStr("none"))>>),
              NotJson}

Statuses == {200, 400, 500}

NoCall == [op |-> "", request |-> default_Request, name |-> ""]

NoResponse == [status |-> 0, body |-> NotJson]

\* client.get(request) up to the await of send().
GetSend == \E r \in ClientRequests :
    /\ kpc = "idle"
    /\ call' = [op |-> "get", request |-> r, name |-> ""]
    /\ url' = get_url(r)
    /\ kpc' = "sent"
    /\ UNCHANGED <<response, outcome>>
    /\ UNCHANGED <<reqVars, cardVars, renderVars>>

\* client.get_by_name(name) up to the await of send().
GetByNameSend == \E n \in ClientNames :
    /\ kpc = "idle"
    /\ call' = [op |-> "get_by_name", request |-> default_Request, name |-> n]
    /\ url' = get_by_name_url(n)
    /\ kpc' = "sent"
    /\ UNCHANGED <<response, outcome>>
    /\ UNCHANGED <<reqVars, cardVars, renderVars>>

\* send() fails: .map_err(|e| Error::Network(e))?
SendFails ==
    /\ kpc = "sent"
    /\ outcome' = Err("Network")
    /\ kpc' = "returned"
    /\ UNCHANGED <<call, url, response>>
    /\ UNCHANGED <<reqVars, cardVars, renderVars>>

\* send() gives a response.
Respond == \E status \in Statuses, body \in Bodies :
    /\ kpc = "sent"
    /\ response' = [status |-> status, body |-> body]
    /\ kpc' = "responded"
    /\ UNCHANGED <<call, url, outcome>>
    /\ UNCHANGED <<reqVars, cardVars, renderVars>>

\* The rest of Client::get.
GetFinish ==
    /\ kpc = "responded"
    /\ call.op = "get"
    /\ outcome' = get_finish(response)
    /\ kpc' = "returned"
    /\ UNCHANGED <<call, url, response>>
    /\ UNCHANGED <<reqVars, cardVars, renderVars>>

\* The rest of Client::get_by_name.
GetByNameFinish ==
    /\ kpc = "responded"
    /\ call.op = "get_by_name"
    /\ outcome' = get_by_name_finish(response)
    /\ kpc' = "returned"
    /\ UNCHANGED <<call, url, response>>
    /\ UNCHANGED <<reqVars, cardVars, renderVars>>

\* No call has been made.
InitClient ==
    /\ call = NoCall
    /\ url = ""
    /\ response = NoResponse
    /\ outcome = Err("")
    /\ kpc = "idle"

-----------------------------------------------------------------------------
(* The arguments the builder operations are called with *)

NameArgs == {"Trent", "Pot of Greed", "a|b,c"}

FnameArgs == {"", "x&atk=1"}

AtkArgs == {-1}

DefArgs == {1800}

LevelArgs == {4}

TypeArgs == {"LinkMonster", "Skill"}

RaceArgs == {"SeaSerpent"}

AttributeArgs == {"Wind"}

LinkArgs == {2}

LinkMarkerArgs == {"BottomLeft"}

ScaleArgs == {13}

CardsetArgs == {"50%=&"}

-----------------------------------------------------------------------------
(* The builder as a state machine *)

\* One entry of the call history: the operation, and its argument as text (s),
\* number (n) or enumeration member (m).
Call(op, s, n, m) == [op |-> op, s |-> s, n |-> n, m |-> m]

Apply(r, c) ==
    /\ rpc = "building"
    /\ Len(calls) < MaxCalls
    /\ request' = r
    /\ calls' = Append(calls, c)
    /\ UNCHANGED <<rpc, params>>
    /\ UNCHANGED cardVars
    /\ UNCHANGED renderVars
    /\ UNCHANGED clientVars

WithName == \E name \in NameArgs :
    Apply(with_name(request, name), Call("with_name", name, 0, ""))

WithFname == \E fname \in FnameArgs :
    Apply(with_fname(request, fname), Call("with_fname", fname, 0, ""))

WithAtk == \E atk \in AtkArgs :
    Apply(with_atk(request, atk), Call("with_atk", "", atk, ""))

WithDef == \E def \in DefArgs :
    Apply(with_def(request, def), Call("with_def", "", def, ""))

WithLevel == \E level \in LevelArgs :
    Apply(with_level(request, level), Call("with_level", "", level, ""))

WithType == \E card_type \in TypeArgs :
    Apply(with_type(request, card_type), Call("with_type", "", 0, card_type))

WithRace == \E race \in RaceArgs :
    Apply(with_race(request, race), Call("with_race", "", 0, race))

WithAttribute == \E attribute \in AttributeArgs :
    Apply(with_attribute(request, attribute), Call("with_attribute", "", 0, attribute))

WithLink == \E link \in LinkArgs :
    Apply(with_link(request, link), Call("with_link", "", link, ""))

WithLinkMarker == \E link_marker \in LinkMarkerArgs :
    Apply(with_link_marker(request, link_marker),
          Call("with_link_marker", "", 0, link_marker))

WithScale == \E scale \in ScaleArgs :
    Apply(with_scale(request, scale), Call("with_scale", "", scale, ""))

WithCardset == \E cardset \in CardsetArgs :
    Apply(with_cardset(request, cardset), Call("with_cardset", cardset, 0, ""))

Build ==
    /\ rpc = "building"
    /\ request' = build(request)
    /\ rpc' = "built"
    /\ UNCHANGED <<calls, params>>
    /\ UNCHANGED cardVars
    /\ UNCHANGED renderVars
    /\ UNCHANGED clientVars

ToUrlParams ==
    /\ rpc = "built"
    /\ params' = to_url_params(request)
    /\ rpc' = "encoded"
    /\ UNCHANGED <<request, calls>>
    /\ UNCHANGED cardVars
    /\ UNCHANGED renderVars
    /\ UNCHANGED clientVars

InitBuilder ==
    /\ request = new_RequestBuilder
    /\ calls = <<>>
    /\ rpc = "building"
    /\ params = ""

InitRequest == InitBuilder /\ InitCard /\ InitRender /\ InitClient

NextRequest ==
    \/ WithName \/ WithFname \/ WithAtk \/ WithDef \/ WithLevel \/ WithType
    \/ WithRace \/ WithAttribute \/ WithLink \/ WithLinkMarker \/ WithScale
    \/ WithCardset \/ Build \/ ToUrlParams

SpecRequest == InitRequest /\ [][NextRequest]_vars

\* The card side alone: the builder stays as constructed.
InitCards == InitCard /\ InitBuilder /\ InitRender /\ InitClient

NextCard == Receive \/ Serialize \/ Deserialize

SpecCard == InitCards /\ [][NextCard]_vars

\* The rendering of one filter value, drawn from all the members of the four
\* enumerations a Request holds.
InitFilters ==
    /\ InitBuilder
    /\ InitCard
    /\ InitClient
    /\ filter \in {Some(f) : f \in FilterMembers}
    /\ text = None

NextRender == Render

SpecRender == InitFilters /\ [][NextRender]_vars

-----------------------------------------------------------------------------
(* The calls on the client as a state machine *)

\* The calls on the client alone.
InitCalls == InitClient /\ InitBuilder /\ InitCard /\ InitRender

NextClient ==
    \/ GetSend \/ GetByNameSend \/ SendFails \/ Respond \/ GetFinish \/ GetByNameFinish

SpecClient == InitCalls /\ [][NextClient]_vars


-----------------------------------------------------------------------------
(* Reading a parameter string back *)

\* The pieces of s between the occurrences of the character c.
RECURSIVE split_from(_, _, _, _)
split_from(s, c, start, i) ==
    IF i > Len(s) THEN <<SubSeq(s, start, Len(s))>>
    ELSE IF CharAt(s, i) = c
         THEN <<SubSeq(s, start, i - 1)>> \o split_from(s, c, i + 1, i + 1)
         ELSE split_from(s, c, start, i + 1)

Split(s, c) == split_from(s, c, 1, 1)

\* The parameters of a query string: its pieces between '&'; none for "".
ParamsOf(s) == IF s = "" THEN <<>> ELSE Split(s, "&")

HasEquals(p) == IndexOf(p, "=") > 0

KeyOf(p) == IF HasEquals(p) THEN SubSeq(p, 1, IndexOf(p, "=") - 1) ELSE p

ValueOf(p) == IF HasEquals(p) THEN SubSeq(p, IndexOf(p, "=") + 1, Len(p)) ELSE ""

HexValue(c) == IndexOf(HexDigits, c) - 1

\* Percent-decoding: %XX is the byte XX, any other character is itself.
RECURSIVE percent_decode_from(_, _)
percent_decode_from(s, i) ==
    IF i > Len(s) THEN ""
    ELSE IF CharAt(s, i) = "%" /\ i + 2 <= Len(s)
         THEN Chr(16 * HexValue(CharAt(s, i + 1)) + HexValue(CharAt(s, i + 2)))
                  \o percent_decode_from(s, i + 3)
         ELSE CharAt(s, i) \o percent_decode_from(s, i + 1)

percent_decode(s) == percent_decode_from(s, 1)

\* The keys of the query protocol in their fixed order.
KeyOrder ==
    <<"name", "fname", "atk", "def", "level", "type", "race", "attribute",
      "link", "linkmarker", "scale", "cardset">>

KeyRank(k) == IF \E i \in DOMAIN KeyOrder : KeyOrder[i] = k
              THEN CHOOSE i \in DOMAIN KeyOrder : KeyOrder[i] = k
              ELSE 0

\* The builder operation that sets or adds to the predicate of a key.
OpOfKey(k) ==
    CASE k = "name" -> "with_name"
      [] k = "fname" -> "with_fname"
      [] k = "atk" -> "with_atk"
      [] k = "def" -> "with_def"
      [] k = "level" -> "with_level"
      [] k = "type" -> "with_type"
      [] k = "race" -> "with_race"
      [] k = "attribute" -> "with_attribute"
      [] k = "link" -> "with_link"
      [] k = "linkmarker" -> "with_link_marker"
      [] k = "scale" -> "with_scale"
      [] k = "cardset" -> "with_cardset"

\* The calls of one operation, in call order.
CallsOf(op) == SelectSeq(calls, LAMBDA c : c.op = op)

\* The parameters of the encoded request that carry the key k.
ParamsWithKey(k) == SelectSeq(ParamsOf(params), LAMBDA p : KeyOf(p) = k)

-----------------------------------------------------------------------------
(* C1..C4: the card record decoder and encoder *)

\* The discriminator of the record at hand: None when the record has no
\* frameType entry.
WireTag == IF HasKey(wire, tag_key) THEN Some(ValueAt(wire, tag_key).str) ELSE None

\* The record at hand with another discriminator and nothing else changed.
Retagged(t) == SetKey(wire, tag_key, JStr(t))

\* The discriminator strings of the protocol.
ProtocolTags ==
    {"normal", "effect", "ritual", "fusion", "synchro", "xyz", "link", "spell",
     "trap", "skill", "token", "normal_pendulum", "effect_pendulum",
     "ritual_pendulum", "fusion_pendulum", "synchro_pendulum", "xyz_pendulum"}

\* The number a record gives under a key.
NumberAt(entries, key) == ValueAt(entries, key).num

\* C1: a record decoded under one of the six pendulum discriminators decodes
\* to the same result under each of the other five, and when it decodes it is
\* the Pendulum variant with the field values of the record; a record decoded
\* to any other variant decodes to that variant under no other discriminator.
C1_PendulumAliases ==
    (cpc = "decoded" /\ WireTag # None) =>
        /\ WireTag[1] \in PendulumTags =>
              /\ \A t \in PendulumTags : de_Card(Retagged(t)) = result
              /\ result.ok =>
                    /\ result.val.variant = "Pendulum"
                    /\ result.val.value.atk = NumberAt(wire, "atk")
                    /\ result.val.value.def = NumberAt(wire, "def")
                    /\ result.val.value.level = NumberAt(wire, "level")
                    /\ result.val.value.scale = NumberAt(wire, "scale")
                    /\ result.val.value.info.name = ValueAt(wire, "name").str
              /\ wire = BaseRecord(WireTag[1]) => result.ok
        /\ (result.ok /\ result.val.variant # "Pendulum") =>
              \A t \in ProtocolTags \ {WireTag[1]} :
                  LET other == de_Card(Retagged(t)) IN
                  ~(other.ok /\ other.val.variant = result.val.variant)

\* A complete record tagged xyz_pendulum has been decoded to a Pendulum card.
C1_Witness ==
    /\ cpc = "decoded"
    /\ wire = BaseRecord("xyz_pendulum")
    /\ result.ok
    /\ result.val.variant = "Pendulum"
    /\ result.val.value.scale = 13

\* C2: decoding a record whose frameType is a string that is not exactly one
\* of the discriminators of the protocol fails with the unknown-variant error
\* that carries the string, and yields no Card.
C2_UnknownTagFails ==
    (cpc = "decoded" /\ WireTag # None /\ WireTag[1] \notin ProtocolTags) =>
        /\ ~result.ok
        /\ result.err = [kind |-> "unknown variant", arg |-> WireTag[1]]
        /\ result.val = UnitValue

\* An otherwise complete record tagged "XYZ" has been refused.
C2_Witness ==
    /\ cpc = "decoded"
    /\ wire = BaseRecord("XYZ")
    /\ ~result.ok
    /\ result.err.arg = "XYZ"

\* The names by which an error could name a variant: the variant of enum Card,
\* the struct it wraps, and its discriminators.
VariantSpellings(variant) ==
    {variant, variant_struct(variant)} \cup variant_names(variant)

\* The names an error quotes in its message.
ErrorNames(err) == {err.arg}

\* The variant a monster discriminator selects.
MonsterVariant(t) == CHOOSE variant \in CardVariants : t \in variant_names(variant)

\* A monster record without its atk key has been decoded.
MonsterWithoutAtk ==
    /\ cpc = "decoded"
    /\ WireTag # None
    /\ WireTag[1] \in MonsterTags
    /\ ~HasKey(wire, "atk")

C4_RoundTrip ==
    (cpc = "decoded" /\ card # NoCard) =>
        /\ result.ok
        /\ result.val.variant = card.variant
        /\ result.val = card

\* A Pendulum card with atk -1 and level 255 went around, under the
\* discriminator normal_pendulum.
C4_Witness ==
    /\ cpc = "decoded"
    /\ card.variant = "Pendulum"
    /\ card.value.atk = -1
    /\ card.value.level = 255
    /\ result.ok
    /\ wire[1] = Entry(tag_key, JStr("normal_pendulum"))

\* A Skill, which has no fields, went around.
C4_WitnessUnit ==
    /\ cpc = "decoded"
    /\ card = Card("Skill", UnitValue)
    /\ result.ok

-----------------------------------------------------------------------------
(* C12..C15, C20: the card record decoder and encoder, continued *)

\* The keys of the shared metadata in a card record.
InfoKeys ==
    {"id", "name", "desc", "humanReadableCardType", "ygoprodeck_url", "card_sets",
     "card_images", "card_prices"}

\* The card c carries the shared metadata.
CarriesInfo(c) ==
    /\ "info" \in DOMAIN c.value
    /\ DOMAIN c.value.info =
           {"id", "name", "desc", "human_readable_card_type", "ygoprodeck_url", "sets",
            "images", "prices"}

\* C12: every decoded card, of every variant, carries the shared metadata
\* with the values of the top-level keys of its record, and every serialised
\* card writes its metadata to the top-level keys of the record, not to a
\* nested object.
C12_EveryVariantCarriesInfo ==
    /\ (cpc = "decoded" /\ result.ok) =>
          /\ CarriesInfo(result.val)
          /\ HasKey(wire, "id") /\ result.val.value.info.id = ValueAt(wire, "id").num
          /\ HasKey(wire, "name") /\ result.val.value.info.name = ValueAt(wire, "name").str
          /\ HasKey(wire, "desc") /\ result.val.value.info.desc = ValueAt(wire, "desc").str
    /\ cpc = "serialized" =>
          /\ CarriesInfo(card)
          /\ InfoKeys \subseteq Keys(wire)
          /\ ~HasKey(wire, "info")
          /\ ValueAt(wire, "name") = JStr(card.value.info.name)

\* The variant a discriminator of the protocol selects.
TagVariant(t) ==
    CASE t = "normal" -> "Normal"
      [] t = "effect" -> "Effect"
      [] t = "ritual" -> "Ritual"
      [] t = "fusion" -> "Fusion"
      [] t = "synchro" -> "Synchro"
      [] t = "xyz" -> "Xyz"
      [] t = "link" -> "Link"
      [] t = "spell" -> "Spell"
      [] t = "trap" -> "Trap"
      [] t = "skill" -> "Skill"
      [] t = "token" -> "Token"
      [] OTHER -> "Pendulum"

\* The keys of a record that a variant models.
ModelledKeys(variant) ==
    {"frameType"} \cup
    (CASE variant \in {"Skill", "Token"} -> {}
       [] variant \in {"Spell", "Trap"} -> InfoKeys \cup {"race"}
       [] variant = "Link" ->
            InfoKeys \cup {"race", "attribute", "atk", "linkval", "type", "linkmarkers"}
       [] variant = "Pendulum" ->
            InfoKeys \cup {"race", "attribute", "atk", "def", "level", "type", "scale"}
       [] OTHER -> InfoKeys \cup {"race", "attribute", "atk", "def", "level", "type"})

\* Entries to add to a record: keys no variant models, and keys only some
\* variants model, with values of shapes those variants would not take.
SurplusEntries ==
    {Entry("archetype", JStr("Forest")),
     Entry("banlist_info", JObj(<<Entry("ban_tcg", JStr("Banned"))>>)),
     Entry("def", JStr("?")),
     Entry("scale", JArr(<<>>)),
     Entry("linkmarkers", JNum(3)),
     Entry("name", JNum(7))}

\* C13: for a record whose discriminator selects a variant, adding an entry
\* whose key the variant does not model, in front of the record or behind it,
\* changes neither whether it decodes nor the decoded card; nor does taking
\* such an entry away.
C13_SurplusKeysIgnored ==
    (cpc = "decoded" /\ WireTag # None /\ WireTag[1] \in ProtocolTags) =>
        /\ \A e \in SurplusEntries :
              e.k \notin ModelledKeys(TagVariant(WireTag[1])) =>
                  LET behind == de_Card(wire \o <<e>>)
                      front == de_Card(<<e>> \o wire)
                  IN  /\ behind.ok = result.ok /\ behind.val = result.val
                      /\ front.ok = result.ok /\ front.val = result.val
        /\ HasKey(wire, "archetype") =>
              LET without == de_Card(RemoveKey(wire, "archetype")) IN
              without.ok = result.ok /\ without.val = result.val

\* A Link record with one key more than the service sends has been decoded
\* to a Link card.
C13_Witness ==
    /\ cpc = "decoded"
    /\ wire = BaseRecord("link") \o <<ExtraEntry>>
    /\ result.ok
    /\ result.val.variant = "Link"

\* The record at hand is the record of the service for its discriminator,
\* less the entry with the key.
RecordLacking(key) ==
    /\ cpc = "decoded"
    /\ WireTag # None
    /\ WireTag[1] \in ProtocolTags
    /\ wire = RemoveKey(BaseRecord(WireTag[1]), key)

\* C14: a record without card_sets decodes, to a card whose sets are the empty
\* list, and so for card_prices and prices; a record without card_images does
\* not decode.
C14_OptionalListsDefault ==
    /\ RecordLacking("card_sets") =>
          result.ok /\ CarriesInfo(result.val) /\ result.val.value.info.sets = <<>>
    /\ RecordLacking("card_prices") =>
          result.ok /\ CarriesInfo(result.val) /\ result.val.value.info.prices = <<>>
    /\ RecordLacking("card_images") => ~result.ok

\* The strings of an array of strings, in the order of the array.
StringsOf(j) == [i \in 1..Len(j.arr) |-> j.arr[i].str]

\* C15: a decoded Link record gives a Link card whose atk is the number of the
\* record, -1 included, and whose link markers are the markers of the record
\* in the order of the record; the Link record of the service, which has
\* neither a def nor a level key, decodes.
C15_LinkRecord ==
    (cpc = "decoded" /\ WireTag = Some("link")) =>
        /\ result.ok =>
              /\ result.val.variant = "Link"
              /\ result.val.value.atk = NumberAt(wire, "atk")
              /\ Len(result.val.value.link_markers) = Len(ValueAt(wire, "linkmarkers").arr)
              /\ [i \in 1..Len(result.val.value.link_markers) |->
                      serde_name_LinkMarker(result.val.value.link_markers[i])]
                     = StringsOf(ValueAt(wire, "linkmarkers"))
        /\ (wire = BaseRecord("link") /\ ~HasKey(wire, "def") /\ ~HasKey(wire, "level")) =>
              /\ result.ok
              /\ result.val.value.atk = -1
              /\ result.val.value.link_markers = <<"Top", "BottomLeft", "Bottom", "BottomRight">>
              /\ result.val.value.linkval = 4

\* The Link record of the service, with atk -1, four markers and neither def
\* nor level, has been decoded.
C15_Witness ==
    /\ cpc = "decoded"
    /\ wire = BaseRecord("link")
    /\ Keys(wire) \cap {"def", "level"} = {}
    /\ NumberAt(wire, "atk") = -1
    /\ result.ok
    /\ Len(result.val.value.link_markers) = 4

\* The record a decoded card is encoded to.
Reencoded == ser_Card(result.val)

\* The discriminator the encoder writes for the decoded card.
EmittedTag == ValueAt(Reencoded, tag_key).str

\* A record that arrived has been decoded to a card.
DecodedFromRecord == cpc = "decoded" /\ card = NoCard /\ WireTag # None /\ result.ok

\* C20: the record a decoded card is encoded to carries the canonical
\* discriminator of the variant: normal_pendulum for a Pendulum card, whichever
\* of the six strings it was decoded from, and for any other variant the
\* discriminator it was decoded from; decoding that record gives the card again.
C20_CanonicalDiscriminator ==
    DecodedFromRecord =>
        /\ Reencoded[1].k = tag_key
        /\ Len(SelectSeq(Reencoded, LAMBDA e : e.k = tag_key)) = 1
        /\ result.val.variant = "Pendulum" =>
              /\ WireTag[1] \in PendulumTags
              /\ EmittedTag = "normal_pendulum"
        /\ result.val.variant # "Pendulum" => EmittedTag = WireTag[1]
        /\ de_Card(Reencoded) = result

\* A record tagged xyz_pendulum was decoded, and the card is encoded under
\* normal_pendulum.
C20_Witness ==
    /\ DecodedFromRecord
    /\ wire = BaseRecord("xyz_pendulum")
    /\ result.val.variant = "Pendulum"
    /\ EmittedTag = "normal_pendulum"
    /\ Reencoded # wire

-----------------------------------------------------------------------------
(* C5..C9: the query encoder *)

\* C5: whatever the order of the builder calls, the parameters of to_url_params
\* carry keys of the protocol in the fixed order name, fname, atk, def, level,
\* type, race, attribute, link, linkmarker, scale, cardset, and '&' only joins
\* them: no parameter is empty, so there is no leading or trailing separator.
C5_FixedKeyOrder ==
    rpc = "encoded" =>
        LET ps == ParamsOf(params)
            ranks == [i \in DOMAIN ps |-> KeyRank(KeyOf(ps[i]))]
        IN
        /\ \A i \in DOMAIN ps : ps[i] # "" /\ ranks[i] > 0
        /\ \A i, j \in DOMAIN ps : i < j => ranks[i] < ranks[j]

\* A request built by calls made against the key order (cardset, then link
\* marker, then name) is encoded with its three parameters.
C5_Witness ==
    /\ rpc = "encoded"
    /\ Len(calls) = 3
    /\ calls[1].op = "with_cardset"
    /\ calls[2].op = "with_link_marker"
    /\ calls[3].op = "with_name"
    /\ Len(ParamsOf(params)) = 3

\* C6: a request with no predicate set (Request::default(), or a builder built
\* with no operation applied) encodes to the empty string.
C6_DefaultEncodesEmpty ==
    (rpc = "encoded" /\ calls = <<>>) => params = ""

C6_Witness == rpc = "encoded" /\ calls = <<>> /\ request = default_Request

\* C7: after any sequence of builder operations each singular predicate holds
\* the argument of the last call that set it (None if there was none) and each
\* list predicate holds the arguments of all its add-calls in call order,
\* duplicates included; so a call changes no predicate but its own.
LastArg(op, field) ==
    LET cs == CallsOf(op) IN IF cs = <<>> THEN <<>> ELSE <<cs[Len(cs)][field]>>

AllArgs(op, field) ==
    LET cs == CallsOf(op) IN [i \in 1..Len(cs) |-> cs[i][field]]

C7_OverwriteAndAppend ==
    /\ request.names = AllArgs("with_name", "s")
    /\ request.fname = LastArg("with_fname", "s")
    /\ request.atk = LastArg("with_atk", "n")
    /\ request.def = LastArg("with_def", "n")
    /\ request.level = LastArg("with_level", "n")
    /\ request.card_types = AllArgs("with_type", "m")
    /\ request.races = AllArgs("with_race", "m")
    /\ request.attributes = AllArgs("with_attribute", "m")
    /\ request.link = LastArg("with_link", "n")
    /\ request.link_markers = AllArgs("with_link_marker", "m")
    /\ request.scale = LastArg("with_scale", "n")
    /\ request.cardset = LastArg("with_cardset", "s")

\* fname set twice with different values around the add of a name: the second
\* value is kept and the name list is what the one add made it.
C7_Witness ==
    /\ Len(calls) = 3
    /\ calls[1].op = "with_fname"
    /\ calls[2].op = "with_name"
    /\ calls[3].op = "with_fname"
    /\ calls[1].s # calls[3].s
    /\ request.fname = <<calls[3].s>>
    /\ request.names = <<calls[2].s>>

\* The same card type added twice, then another: the list holds all three.
C7_WitnessDuplicates ==
    /\ Len(calls) = 3
    /\ calls[1].op = "with_type"
    /\ calls[2].op = "with_type"
    /\ calls[1].m = calls[2].m
    /\ calls[3].op = "with_type"
    /\ calls[3].m # calls[1].m
    /\ Len(request.card_types) = 3

\* C8: in the encoded request a predicate that was never set or added has no
\* parameter (its key does not occur, not even with an empty value), a predicate
\* that was set or added has exactly one, of the form key=value, and there are
\* no other parameters.
C8_OneParamPerSetPredicate ==
    rpc = "encoded" =>
        LET ps == ParamsOf(params)
            keys == [i \in DOMAIN ps |-> KeyOf(ps[i])]
            wasSet == {k \in Range(KeyOrder) : \E i \in DOMAIN calls : calls[i].op = OpOfKey(k)}
        IN
        /\ \A k \in Range(KeyOrder) :
               Cardinality({i \in DOMAIN ps : keys[i] = k}) = (IF k \in wasSet THEN 1 ELSE 0)
        /\ \A i \in DOMAIN ps : HasEquals(ps[i])
        /\ Len(ps) = Cardinality(wasSet)

\* fname set to the empty text and two names added: two parameters, the fname
\* one with an empty value.
C8_Witness ==
    /\ rpc = "encoded"
    /\ Len(CallsOf("with_name")) = 2
    /\ Len(CallsOf("with_fname")) = 1
    /\ request.fname = <<"">>
    /\ Len(ParamsOf(params)) = 2
    /\ ParamsOf(params)[2] = "fname="

\* C9: the members of a list predicate are joined in insertion order before the
\* percent-encoding, names with '|' and card types, races, attributes and link
\* markers with ',': the percent-decoded value of the parameter is the joined
\* list of the members' texts.
RECURSIVE Joined(_, _)
Joined(texts, sep) ==
    IF Len(texts) = 0 THEN ""
    ELSE IF Len(texts) = 1 THEN texts[1]
    ELSE Joined(SubSeq(texts, 1, Len(texts) - 1), sep) \o sep \o texts[Len(texts)]

DecodedValue(k) == percent_decode(ValueOf(ParamsWithKey(k)[1]))

NameTexts == AllArgs("with_name", "s")

TypeTexts == map_fmt_CardType(AllArgs("with_type", "m"))

RaceTexts == map_fmt_MonsterRace(AllArgs("with_race", "m"))

AttributeTexts == map_fmt_Attribute(AllArgs("with_attribute", "m"))

LinkMarkerTexts == map_fmt_LinkMarker(AllArgs("with_link_marker", "m"))

C9_ListsJoinedInOrder ==
    rpc = "encoded" =>
        /\ CallsOf("with_name") # <<>> =>
               DecodedValue("name") = Joined(NameTexts, "|")
        /\ CallsOf("with_type") # <<>> =>
               DecodedValue("type") = Joined(TypeTexts, ",")
        /\ CallsOf("with_race") # <<>> =>
               DecodedValue("race") = Joined(RaceTexts, ",")
        /\ CallsOf("with_attribute") # <<>> =>
               DecodedValue("attribute")
                   = Joined(AttributeTexts, ",")
        /\ CallsOf("with_link_marker") # <<>> =>
               DecodedValue("linkmarker")
                   = Joined(LinkMarkerTexts, ",")

\* The names "Trent" and "Pot of Greed", added in this order, give a name
\* parameter that decodes to Trent|Pot of Greed.
C9_Witness ==
    /\ rpc = "encoded"
    /\ Len(calls) = 2
    /\ calls[1] = Call("with_name", "Trent", 0, "")
    /\ calls[2] = Call("with_name", "Pot of Greed", 0, "")
    /\ params = "name=Trent%7CPot%20of%20Greed"
    /\ DecodedValue("name") = "Trent|Pot of Greed"

-----------------------------------------------------------------------------
(* C11: every value is percent-encoded *)

HexDigitSet == {CharAt(HexDigits, i) : i \in 1..Len(HexDigits)}

\* The characters a URL component keeps as they are.
ComponentSafe ==
    {CharAt("ABCDEFGHIJKLMNOPQRSTUVWXYZabcdefghijklmnopqrstuvwxyz0123456789-_.~", i) :
        i \in 1..66}

\* s from position i on is made of safe characters and of escapes %XX, XX
\* two upper-case hex digits of a byte that is not a safe character.
RECURSIVE escaped_from(_, _)
escaped_from(s, i) ==
    IF i > Len(s) THEN TRUE
    ELSE IF CharAt(s, i) \in ComponentSafe THEN escaped_from(s, i + 1)
    ELSE /\ CharAt(s, i) = "%"
         /\ i + 2 <= Len(s)
         /\ CharAt(s, i + 1) \in HexDigitSet
         /\ CharAt(s, i + 2) \in HexDigitSet
         /\ LET b == 16 * HexValue(CharAt(s, i + 1)) + HexValue(CharAt(s, i + 2)) IN
               /\ b \in 32..126
               /\ b # 96
               /\ Chr(b) \notin ComponentSafe
         /\ escaped_from(s, i + 3)

\* v is the percent-encoding of the text t as a URL component.
IsComponentEncodingOf(v, t) == escaped_from(v, 1) /\ percent_decode(v) = t

\* The number a decimal numeral denotes: an optional '-', then digits.
RECURSIVE digits_value(_, _, _)
digits_value(s, i, acc) ==
    IF i > Len(s) THEN acc
    ELSE digits_value(s, i + 1, 10 * acc + (IndexOf(Digits, CharAt(s, i)) - 1))

IsNumeral(s) ==
    LET d == IF s # "" /\ CharAt(s, 1) = "-" THEN SubSeq(s, 2, Len(s)) ELSE s IN
    /\ d # ""
    /\ \A i \in 1..Len(d) : IndexOf(Digits, CharAt(d, i)) > 0
    /\ Len(d) > 1 => CharAt(d, 1) # "0"

NumeralValue(s) ==
    IF CharAt(s, 1) = "-" THEN 0 - digits_value(s, 2, 0) ELSE digits_value(s, 1, 0)

\* The value of the parameter with key k is the encoding of a text.
EncodesText(k, t) ==
    LET ps == ParamsWithKey(k) IN
    Len(ps) = 1 /\ IsComponentEncodingOf(ValueOf(ps[1]), t)

\* The value of the parameter with key k is the encoding of the decimal text
\* of a number.
EncodesNumber(k, n) ==
    LET ps == ParamsWithKey(k) IN
    /\ Len(ps) = 1
    /\ escaped_from(ValueOf(ps[1]), 1)
    /\ IsNumeral(percent_decode(ValueOf(ps[1])))
    /\ NumeralValue(percent_decode(ValueOf(ps[1]))) = n

\* C11: in the string to_url_params returns, the value of every parameter is
\* the URL-component percent-encoding of the text of its predicate: of the
\* text given for fname and cardset, of the decimal text of atk, def, level,
\* link and scale (a negative atk included), and of the joined list for name,
\* type, race, attribute and linkmarker.
C11_ValuesPercentEncoded ==
    rpc = "encoded" =>
        /\ request.names # <<>> => EncodesText("name", Joined(request.names, "|"))
        /\ request.fname # None => EncodesText("fname", request.fname[1])
        /\ request.atk # None => EncodesNumber("atk", request.atk[1])
        /\ request.def # None => EncodesNumber("def", request.def[1])
        /\ request.level # None => EncodesNumber("level", request.level[1])
        /\ request.card_types # <<>> =>
               EncodesText("type", Joined(map_fmt_CardType(request.card_types), ","))
        /\ request.races # <<>> =>
               EncodesText("race", Joined(map_fmt_MonsterRace(request.races), ","))
        /\ request.attributes # <<>> =>
               EncodesText("attribute", Joined(map_fmt_Attribute(request.attributes), ","))
        /\ request.link # None => EncodesNumber("link", request.link[1])
        /\ request.link_markers # <<>> =>
               EncodesText("linkmarker",
                           Joined(map_fmt_LinkMarker(request.link_markers), ","))
        /\ request.scale # None => EncodesNumber("scale", request.scale[1])
        /\ request.cardset # None => EncodesText("cardset", request.cardset[1])

\* A negative atk and a cardset made of reserved characters were encoded.
C11_Witness ==
    /\ rpc = "encoded"
    /\ request.atk = Some(-1)
    /\ request.cardset = Some("50%=&")
    /\ params = "atk=-1&cardset=50%25%3D%26"

-----------------------------------------------------------------------------
(* C10: the text of the filter values *)

\* C10: for every member of CardType, MonsterRace, Attribute and LinkMarker,
\* the text Display writes is the serde name of the member.
C10_DisplayIsSerdeName ==
    (filter # None /\ text # None) =>
        text[1] = serde_name(filter[1][1], filter[1][2])

-----------------------------------------------------------------------------
(* C16, C17, C19: the calls on the client *)

\* A response came: send() did not fail.
Responded == response # NoResponse

\* The body is an envelope: an object whose data is a list of records.
IsEnvelope(body) ==
    /\ body.t = "object"
    /\ HasKey(body.obj, "data")
    /\ ValueAt(body.obj, "data").t = "array"

\* The records of an envelope, in its order.
RecordsOf(body) == ValueAt(body.obj, "data").arr

\* The records of an envelope that do not decode to a Card.
Undecodable(body) ==
    {i \in 1..Len(RecordsOf(body)) : ~de_Card(RecordsOf(body)[i].obj).ok}

\* The body decodes: it is an envelope and each of its records is a Card.
Decodes(body) == IsEnvelope(body) /\ Undecodable(body) = {}

\* The cards of a body that decodes, in envelope order.
CardsOf(body) ==
    [i \in 1..Len(RecordsOf(body)) |-> de_Card(RecordsOf(body)[i].obj).val]

\* C16: a call that returned gave Error::Network when send() failed; otherwise
\* Error::NotFound when the status was 400, whatever the body; otherwise
\* Error::Deserialization when the body does not decode; otherwise get gave
\* every card of the envelope in its order, and get_by_name gave the first card
\* of the envelope, or Error::NotFound when the envelope is empty.
C16_OutcomePrecedence ==
    kpc = "returned" =>
        CASE ~Responded -> outcome = Err("Network")
          [] Responded /\ response.status = 400 -> outcome = Err("NotFound")
          [] Responded /\ response.status # 400 /\ ~Decodes(response.body) ->
                outcome = Err("Deserialization")
          [] OTHER ->
                IF call.op = "get"
                THEN outcome = Returned(CardsOf(response.body))
                ELSE IF RecordsOf(response.body) = <<>>
                     THEN outcome = Err("NotFound")
                     ELSE outcome = Returned(<<CardsOf(response.body)[1]>>)

\* get_by_name returned NotFound for a response of status 400 whose body was
\* an envelope of two cards.
C16_Witness ==
    /\ kpc = "returned"
    /\ call.op = "get_by_name"
    /\ response.status = 400
    /\ Decodes(response.body)
    /\ Len(RecordsOf(response.body)) = 2
    /\ outcome = Err("NotFound")

\* get returned two cards of different variants in the order of the envelope,
\* for a status that is neither 200 nor 400.
C16_WitnessOrder ==
    /\ kpc = "returned"
    /\ call.op = "get"
    /\ response.status = 500
    /\ response.body = Envelope(<<BaseRecord("link"), BaseRecord("normal")>>)
    /\ outcome.ok
    /\ outcome.cards[1].variant = "Link"
    /\ outcome.cards[2].variant = "Normal"

\* C17: when a record of the envelope of a response has an unknown
\* discriminator, lacks a required field or has a field of the wrong shape,
\* get returns an error and no card.
C17_AllOrNothing ==
    (/\ kpc = "returned"
     /\ call.op = "get"
     /\ Responded
     /\ IsEnvelope(response.body)
     /\ Undecodable(response.body) # {}) =>
        /\ ~outcome.ok
        /\ outcome.cards = <<>>
        /\ outcome.err \in {"Deserialization", "NotFound"}
        /\ response.status # 400 => outcome.err = "Deserialization"

\* get returned Error::Deserialization for an envelope whose first record
\* decodes and whose second has a level of 256.
C17_Witness ==
    /\ kpc = "returned"
    /\ call.op = "get"
    /\ response.status = 200
    /\ response.body =
          Envelope(<<BaseRecord("link"), SetKey(BaseRecord("normal"), "level", JNum(256))>>)
    /\ Undecodable(response.body) = {2}
    /\ outcome = Err("Deserialization")

\* C19: the URL get_by_name requests for a name is the URL get requests for
\* the request built by with_name of that name alone, and the other way round.
C19_SameUrl ==
    /\ (kpc # "idle" /\ call.op = "get_by_name") =>
          url = get_url(build(with_name(new_RequestBuilder, call.name)))
    /\ (kpc # "idle" /\ call.op = "get") =>
          \A n \in ClientNames :
              call.request = build(with_name(new_RequestBuilder, n)) =>
                  url = get_by_name_url(n)

\* get_by_name was called with a name that holds a separator of names and a
\* separator of parameters, and with the empty name.
C19_Witness ==
    /\ kpc = "sent"
    /\ call.op = "get_by_name"
    /\ call.name = "a|b&c"
    /\ url = endpoint \o "name=a%7Cb%26c"

C19_WitnessEmpty ==
    /\ kpc = "sent"
    /\ call.op = "get_by_name"
    /\ call.name = ""
    /\ url = endpoint \o "name="

-----------------------------------------------------------------------------
(* C18: the text of a caller cannot add, remove or rename a parameter *)

\* How many times the character c stands in s as itself.
Count(s, c) == Cardinality({i \in 1..Len(s) : CharAt(s, i) = c})

\* The operations the builder was called with.
OpsCalled == {calls[i].op : i \in DOMAIN calls}

\* The keys the operations called set or add to.
KeysCalled == {k \in Range(KeyOrder) : OpOfKey(k) \in OpsCalled}

\* C18: the string to_url_params returns holds one '=' that is not escaped for
\* each parameter emitted and one '&' that is not escaped between each two of
\* them, and the parameters emitted are those of the operations called, one
\* for each key, whatever text the operations were given.
C18_DelimitersCounted ==
    rpc = "encoded" =>
        LET emitted == Cardinality(KeysCalled) IN
        /\ Count(params, "=") = emitted
        /\ Count(params, "&") = IF emitted = 0 THEN 0 ELSE emitted - 1
        /\ Len(ParamsOf(params)) = emitted
        /\ {KeyOf(p) : p \in Range(ParamsOf(params))} = KeysCalled
        /\ \A p \in Range(ParamsOf(params)) : Count(p, "=") = 1

\* A fuzzy name that spells a second parameter and a card set that holds both
\* delimiters and a percent sign were encoded into two parameters.
C18_Witness ==
    /\ rpc = "encoded"
    /\ Len(calls) = 2
    /\ calls[1] = Call("with_cardset", "50%=&", 0, "")
    /\ calls[2] = Call("with_fname", "x&atk=1", 0, "")
    /\ params = "fname=x%26atk%3D1&cardset=50%25%3D%26"
    /\ Count(params, "=") = 2
    /\ Count(params, "&") = 1

====
